---- MODULE Spec2Model ----
(***************************************************************************)
(* Timer synchronization core of the netball score app.                    *)
(*                                                                         *)
(* TimerManager (lib/timer/TimerManager.ts) is the clock state machine;    *)
(* TimerService (lib/services/TimerService.ts) is the registry that owns   *)
(* one TimerManager per game and persists it through TimerDataStorage      *)
(* (lib/storage/GameStorageV2.ts).                                         *)
(*                                                                         *)
(* Time is counted in ticks of 25 ms, so that the 100 ms rounding of       *)
(* getCurrentTime() rounds both up and down.  Seconds of the source are    *)
(* ticks here: totalPausedTime, quarterLength and getCurrentTime() are     *)
(* all in ticks.                                                           *)
(***************************************************************************)
EXTENDS Integers, Sequences, FiniteSets, TLC

VARIABLES
    now,        \* Date.now(), in ticks
    timer,      \* TimerManager.state of the clock under study
    lastEvent,  \* the TimerEvent emitted by the most recent call, or NoEvent
    lastOp,     \* name of the most recent TimerManager call
    synced,     \* TRUE once syncWithState() has been called
    ranTotal,   \* while ~synced: ticks the clock spent running since the quarter (re)started
    nqCount     \* while ~synced: number of nextQuarter() calls so far (saturating)

VARIABLES
    timers,           \* TimerService.timers: gameId -> state of its TimerManager
    lastAccessed,     \* TimerService.lastAccessed: gameId -> time of last access
    cleanupInterval,  \* TRUE while the cleanup job is scheduled
    autoSaveInterval, \* TRUE while the auto-save job is scheduled
    timerStore,       \* TimerDataStorage: global cache, its timestamp, the data file
    gameStore,        \* GameDataStorage: global cache, its timestamp, the data file
    idPool,           \* ids uuidv4() has not handed out yet
    diskMayFail,      \* a handler may still find the file system failing
    regLast           \* the most recent TimerService call and what it restored from

VARIABLES
    adminHook,      \* useAdminTimer: its TimerManager and the React state shown
    spectatorHook,  \* useSpectatorTimer: its TimerManager and the React state shown
    adminCommands,  \* number of timer buttons the admin has pressed (saturating)
    hookLast        \* the most recent step of a page and what its fetch returned

VARIABLES
    listeners,  \* TimerManager.listeners of the clock under study, in insertion order
    delivered,  \* per listener: invocations during the most recent call, last event seen
    raised      \* TRUE when the most recent TimerManager call threw

clockVars == <<timer, lastEvent, lastOp, synced, ranTotal, nqCount>>

regVars == <<timers, lastAccessed, cleanupInterval, autoSaveInterval,
             timerStore, gameStore, idPool, diskMayFail, regLast>>

VARIABLES
    peer        \* a second server process: its TimerService and its storage caches

hookVars == <<adminHook, spectatorHook, adminCommands, hookLast>>

listenerVars == <<listeners, delivered, raised>>

peerVars == <<peer>>

otherVars == <<hookVars, listenerVars, peerVars>>

vars == <<now, clockVars, regVars, otherVars>>

----------------------------------------------------------------------------
(* Bounds and program constants *)

\* Ticks per 0.1 s: getCurrentTime() rounds to one tenth of a second.
TicksPerTenth == 4

\* null of `Date | null`
Null == -1

\* DEFAULT_TIMER_CONFIG.totalQuarters
TotalQuarters == 4

\* config.quarterLength of the clock under study, in ticks
QuarterLength == 6

\* the wall clock stops advancing here
MaxTime == 8

\* the wall clock of the registry run stops advancing here
RegMaxTime == 3

\* the wall clock of the service run stops advancing here
ServiceMaxTime == 2

\* nqCount saturates here
MaxNextQuarterCount == 5

\* The durations below are scaled down to the ticks the model can count.
\* `* 60` of minutes -> seconds (TimerService.getOrCreateTimer)
TicksPerMinute == 3

\* TimerService.TIMER_TTL
TIMER_TTL == 1

\* TimerService.MAX_TIMER_INSTANCES
MAX_TIMER_INSTANCES == 1

\* STORAGE_CONFIG.cacheTimeout
CacheTimeout == 2

\* settings.quarterLength of the games created, in minutes
QuarterMinutes == 2

\* quarterLength useTimer is given before the game is loaded (600 s), in ticks
HookQuarterLength == 4

\* the wall clock of the pages' run stops advancing here
ClientMaxTime == 1

\* the admin presses at most this many timer buttons
MaxAdminCommands == 2

\* the wall clock of the listeners' run stops advancing here
ListenerMaxTime == 2

\* the wall clock of the two processes' run stops advancing here
TwoProcessMaxTime == 1

\* the wall clock of the shared-store run stops advancing here
StoreMaxTime == 2

\* game ids requests can name
GameIds == {"g1"}
EvictionIds == {"g1", "g2", "g3"}
EvictionMaxTime == 3

\* scores stay at or below this
MaxScore == 1

Statuses == {"scheduled", "live", "finished"}

Max(a, b) == IF a >= b THEN a ELSE b

Min(a, b) == IF a <= b THEN a ELSE b

\* One step of a handler: the value v of a statement, computed once, handed
\* to the rest of the handler.
Step(v, Rest(_)) == LET x == v IN Rest(x)

----------------------------------------------------------------------------
(* TimerManager *)

\* constructor: the initial TimerState
NewTimerState(gameId, quarterLength) ==
    [ isRunning       |-> FALSE,
      startedAt       |-> Null,
      pausedAt        |-> Null,
      totalPausedTime |-> 0,
      quarterLength   |-> quarterLength,
      currentQuarter  |-> 1,
      gameId          |-> gameId,
      status          |-> "scheduled" ]

\* Math.round(remaining * 10) / 10, on ticks: Math.round(x) = floor(x + 1/2)
Round10(u) == TicksPerTenth * ((2 * u + TicksPerTenth) \div (2 * TicksPerTenth))

\* Variant: decides "running" from startedAt alone, ignoring the isRunning flag.
getCurrentTimeByStartedAt(s, t) ==
    IF s.startedAt = Null
    THEN Max(0, s.quarterLength - s.totalPausedTime)
    ELSE Max(0, Round10(s.quarterLength - ((t - s.startedAt) + s.totalPausedTime)))

\* getCurrentTime(): remaining ticks of state s at wall-clock time t
getCurrentTime(s, t) ==
    IF ~s.isRunning \/ s.startedAt = Null
    THEN Max(0, s.quarterLength - s.totalPausedTime)
    ELSE LET elapsedSinceStart == t - s.startedAt
             totalElapsed      == elapsedSinceStart + s.totalPausedTime
             remaining         == s.quarterLength - totalElapsed
         IN  Max(0, Round10(remaining))

isExpired(s, t) == getCurrentTime(s, t) <= 0

isGameFinished(s) == s.status = "finished"

NoEvent == [type |-> "none"]

\* emitEvent(): the TimerEvent handed to the listeners
emitEvent(type, timestamp, s) ==
    [ type      |-> type,
      timestamp |-> timestamp,
      gameId    |-> s.gameId,
      state     |-> s,
      source    |-> "admin" ]

\* Variant: start() without the "already running" guard.
startWithoutRunningGuard(s, t) ==
    IF s.quarterLength - s.totalPausedTime <= 0
    THEN [state |-> s, event |-> NoEvent]
    ELSE LET s2 == [s EXCEPT !.isRunning = TRUE,
                             !.startedAt = t,
                             !.pausedAt  = Null,
                             !.status    = "live"]
         IN  [state |-> s2, event |-> emitEvent("start", t, s2)]

\* Variant: start() without the "no time remaining" guard.
startIgnoresExpiry(s, t) ==
    IF s.isRunning
    THEN [state |-> s, event |-> NoEvent]
    ELSE LET s2 == [s EXCEPT !.isRunning = TRUE,
                             !.startedAt = t,
                             !.pausedAt  = Null,
                             !.status    = "live"]
         IN  [state |-> s2, event |-> emitEvent("start", t, s2)]

\* Each call returns the new state and the event it emitted (NoEvent if none).
start(s, t) ==
    IF s.isRunning
    THEN [state |-> s, event |-> NoEvent]
    ELSE IF s.quarterLength - s.totalPausedTime <= 0
    THEN [state |-> s, event |-> NoEvent]
    ELSE LET s2 == [s EXCEPT !.isRunning = TRUE,
                             !.startedAt = t,
                             !.pausedAt  = Null,
                             !.status    = "live"]
         IN  [state |-> s2, event |-> emitEvent("start", t, s2)]

\* Variant: pause() stores the last run segment instead of accumulating it.
pauseOverwrites(s, t) ==
    IF ~s.isRunning \/ s.startedAt = Null
    THEN [state |-> s, event |-> NoEvent]
    ELSE LET s2 == [s EXCEPT !.isRunning       = FALSE,
                             !.pausedAt        = t,
                             !.totalPausedTime = t - s.startedAt,
                             !.startedAt       = Null,
                             !.status          = "scheduled"]
         IN  [state |-> s2, event |-> emitEvent("pause", t, s2)]

\* Variant: pause() leaves the status as it was.
pauseKeepsStatus(s, t) ==
    IF ~s.isRunning \/ s.startedAt = Null
    THEN [state |-> s, event |-> NoEvent]
    ELSE LET s2 == [s EXCEPT !.isRunning       = FALSE,
                             !.pausedAt        = t,
                             !.totalPausedTime = s.totalPausedTime + (t - s.startedAt),
                             !.startedAt       = Null]
         IN  [state |-> s2, event |-> emitEvent("pause", t, s2)]

pause(s, t) ==
    IF ~s.isRunning \/ s.startedAt = Null
    THEN [state |-> s, event |-> NoEvent]
    ELSE LET elapsedSinceStart == t - s.startedAt
             s2 == [s EXCEPT !.isRunning       = FALSE,
                             !.pausedAt        = t,
                             !.totalPausedTime = s.totalPausedTime + elapsedSinceStart,
                             !.startedAt       = Null,
                             !.status          = "scheduled"]
         IN  [state |-> s2, event |-> emitEvent("pause", t, s2)]

\* Variant: nextQuarter() finishes one call early (>= instead of >).
nextQuarterFinishesEarly(s, t, totalQuarters) ==
    LET nextQ      == s.currentQuarter + 1
        isFinished == nextQ >= totalQuarters
        s2 == [s EXCEPT !.currentQuarter  = IF isFinished THEN s.currentQuarter ELSE nextQ,
                        !.isRunning       = FALSE,
                        !.startedAt       = Null,
                        !.pausedAt        = Null,
                        !.totalPausedTime = 0,
                        !.status          = IF isFinished THEN "finished" ELSE "scheduled"]
    IN  [state |-> s2, event |-> emitEvent("nextQuarter", t, s2)]

nextQuarter(s, t, totalQuarters) ==
    LET nextQ      == s.currentQuarter + 1
        isFinished == nextQ > totalQuarters
        s2 == [s EXCEPT !.currentQuarter  = IF isFinished THEN s.currentQuarter ELSE nextQ,
                        !.isRunning       = FALSE,
                        !.startedAt       = Null,
                        !.pausedAt        = Null,
                        !.totalPausedTime = 0,
                        !.status          = IF isFinished THEN "finished" ELSE "scheduled"]
    IN  [state |-> s2, event |-> emitEvent("nextQuarter", t, s2)]

\* Variant: reset() goes back to the first quarter.
resetToFirstQuarter(s, t) ==
    LET s2 == [s EXCEPT !.isRunning       = FALSE,
                        !.startedAt       = Null,
                        !.pausedAt        = Null,
                        !.totalPausedTime = 0,
                        !.currentQuarter  = 1,
                        !.status          = "scheduled"]
    IN  [state |-> s2, event |-> emitEvent("reset", t, s2)]

reset(s, t) ==
    LET s2 == [s EXCEPT !.isRunning       = FALSE,
                        !.startedAt       = Null,
                        !.pausedAt        = Null,
                        !.totalPausedTime = 0,
                        !.status          = "scheduled"]
    IN  [state |-> s2, event |-> emitEvent("reset", t, s2)]

\* { ...state, ...externalState }: p is a record holding a subset of the fields
Merge(s, p) == [f \in DOMAIN s |-> IF f \in DOMAIN p THEN p[f] ELSE s[f]]

\* JSON.stringify of a Date | null field: null, or the ISO string of the time
DateJSON(d) == IF d = Null THEN [null |-> TRUE] ELSE [iso |-> d]

\* JSON.stringify(state): the values of the keys in the order of the object
JSONstringify(s) ==
    << s.isRunning, DateJSON(s.startedAt), DateJSON(s.pausedAt), s.totalPausedTime,
       s.quarterLength, s.currentQuarter, s.gameId, s.status >>

\* Variant: the sync event is emitted whether or not the state changed.
syncWithStateEmitting(s, p, t) ==
    LET s2 == Merge(s, p)
    IN  [state |-> s2, event |-> emitEvent("sync", t, s2)]

syncWithState(s, p, t) ==
    LET s2 == Merge(s, p)
    IN  IF JSONstringify(s2) # JSONstringify(s)
        THEN [state |-> s2, event |-> emitEvent("sync", t, s2)]
        ELSE [state |-> s2, event |-> NoEvent]

----------------------------------------------------------------------------
(* One TimerManager driven by arbitrary calls while time passes *)

\* external snapshots handed to syncWithState()
SyncInputs(s, t) ==
    {s}
    \cup [isRunning : BOOLEAN]
    \cup [status : Statuses]
    \cup [isRunning : {TRUE}, currentQuarter : {3}, totalPausedTime : {2}]
    \cup [ isRunning       : {TRUE},
           startedAt       : {Max(0, t - 2)},
           pausedAt        : {Null},
           totalPausedTime : {0, 1},
           quarterLength   : {s.quarterLength},
           currentQuarter  : {2},
           gameId          : {s.gameId},
           status          : {"live"} ]
    \cup [ isRunning       : {FALSE},
           startedAt       : {Null},
           pausedAt        : {Null},
           totalPausedTime : {1},
           quarterLength   : {s.quarterLength},
           currentQuarter  : {TotalQuarters},
           gameId          : {s.gameId},
           status          : {"scheduled", "finished"} ]

\* a freshly constructed TimerManager, no call made yet
ClockIdle ==
    /\ timer = NewTimerState("g1", QuarterLength)
    /\ lastEvent = NoEvent
    /\ lastOp = "new"
    /\ ranTotal = 0
    /\ nqCount = 0
    /\ synced = FALSE

Tick ==
    /\ now < MaxTime
    /\ now' = now + 1
    /\ ranTotal' = IF ~synced /\ timer.isRunning THEN ranTotal + 1 ELSE ranTotal
    /\ UNCHANGED <<timer, lastEvent, lastOp, nqCount, synced, regVars, otherVars>>

CallStart ==
    LET r == start(timer, now)
    IN  /\ timer' = r.state
        /\ lastEvent' = r.event
        /\ lastOp' = "start"
        /\ UNCHANGED <<now, ranTotal, nqCount, synced, regVars, otherVars>>

CallPause ==
    LET r == pause(timer, now)
    IN  /\ timer' = r.state
        /\ lastEvent' = r.event
        /\ lastOp' = "pause"
        /\ UNCHANGED <<now, ranTotal, nqCount, synced, regVars, otherVars>>

CallNextQuarter ==
    LET r == nextQuarter(timer, now, TotalQuarters)
    IN  /\ timer' = r.state
        /\ lastEvent' = r.event
        /\ lastOp' = "nextQuarter"
        /\ ranTotal' = 0
        /\ nqCount' = IF synced \/ nqCount >= MaxNextQuarterCount
                       THEN nqCount ELSE nqCount + 1
        /\ UNCHANGED <<now, synced, regVars, otherVars>>

CallReset ==
    LET r == reset(timer, now)
    IN  /\ timer' = r.state
        /\ lastEvent' = r.event
        /\ lastOp' = "reset"
        /\ ranTotal' = 0
        /\ UNCHANGED <<now, nqCount, synced, regVars, otherVars>>

SyncWith(p) ==
    LET r == syncWithState(timer, p, now)
    IN  /\ timer' = r.state
        /\ lastEvent' = r.event
        /\ lastOp' = "sync"
        /\ synced' = TRUE
        /\ ranTotal' = 0
        /\ nqCount' = 0
        /\ UNCHANGED <<now, regVars, otherVars>>

CallSync == \E p \in SyncInputs(timer, now) : SyncWith(p)

ClockNext ==
    \/ Tick
    \/ CallStart
    \/ CallPause
    \/ CallNextQuarter
    \/ CallReset
    \/ CallSync

----------------------------------------------------------------------------
(* GameStorageV2: GameDataStorage and TimerDataStorage *)

EmptyMap == [g \in {} |-> 0]

\* Map.set(k, v)
MapSet(m, k, v) == [x \in DOMAIN m \cup {k} |-> IF x = k THEN v ELSE m[x]]

\* Map.delete(k)
MapDelete(m, k) == [x \in DOMAIN m \ {k} |-> m[x]]

\* Map.get(k) || null
NoRecord == [found |-> FALSE]

MapGet(m, k) == IF k \in DOMAIN m THEN m[k] ELSE NoRecord

\* A store: the global cache (unset until first load or save), its timestamp,
\* and the JSON file on disk.
EmptyStore ==
    [ cacheSet |-> FALSE, cache |-> EmptyMap, cacheTs |-> 0,
      fileExists |-> FALSE, file |-> EmptyMap ]

\* JSON.stringify of a Date (toISOString) or of null
DateToJSON(d) == IF d = Null THEN "null" ELSE ToString(d)

\* new Date(isoString)
JSONToDate(v) == CHOOSE d \in 0 .. MaxTime + 1 : ToString(d) = v

\* JSON.stringify of a game or timer record: only the Date fields change shape
ToJSON(rec) ==
    [f \in DOMAIN rec |->
        IF f \in {"createdAt", "updatedAt", "startedAt", "pausedAt"}
        THEN DateToJSON(rec[f]) ELSE rec[f]]

\* loadGamesFromStorage: createdAt and updatedAt are converted back
GameFromJSON(item) ==
    [item EXCEPT !.createdAt = JSONToDate(item.createdAt),
                 !.updatedAt = JSONToDate(item.updatedAt)]

\* loadTimersFromStorage: startedAt and pausedAt are converted when truthy
TimerFromJSON(item) ==
    [item EXCEPT !.createdAt = JSONToDate(item.createdAt),
                 !.updatedAt = JSONToDate(item.updatedAt),
                 !.startedAt = IF item.startedAt # "null"
                               THEN JSONToDate(item.startedAt) ELSE Null,
                 !.pausedAt  = IF item.pausedAt # "null"
                               THEN JSONToDate(item.pausedAt) ELSE Null]

\* loadFromFile: [] when the file is missing or the read throws
loadFromFile(st, diskOk) ==
    IF diskOk /\ st.fileExists THEN st.file ELSE EmptyMap

\* saveToFile: a failed write is caught and logged
saveToFile(st, data, diskOk) ==
    IF diskOk THEN [st EXCEPT !.fileExists = TRUE, !.file = data] ELSE st

\* loadGamesFromStorage: returns the map read and the store after the read
loadGamesFromStorage(st, t, diskOk) ==
    IF st.cacheSet /\ t - st.cacheTs < CacheTimeout
    THEN [data |-> st.cache, store |-> st]
    ELSE Step(loadFromFile(st, diskOk), LAMBDA arr :
         Step([g \in DOMAIN arr |-> GameFromJSON(arr[g])], LAMBDA games :
         [ data  |-> games,
           store |-> [st EXCEPT !.cacheSet = TRUE, !.cache = games, !.cacheTs = t] ]))

saveGamesToStorage(st, games, t, diskOk) ==
    saveToFile([st EXCEPT !.cacheSet = TRUE, !.cache = games, !.cacheTs = t],
               [g \in DOMAIN games |-> ToJSON(games[g])], diskOk)

loadTimersFromStorage(st, t, diskOk) ==
    IF st.cacheSet /\ t - st.cacheTs < CacheTimeout
    THEN [data |-> st.cache, store |-> st]
    ELSE Step(loadFromFile(st, diskOk), LAMBDA arr :
         Step([g \in DOMAIN arr |-> TimerFromJSON(arr[g])], LAMBDA tms :
         [ data  |-> tms,
           store |-> [st EXCEPT !.cacheSet = TRUE, !.cache = tms, !.cacheTs = t] ]))

\* Variant: the cache is updated only once the file has been written.
saveTimersToStorageFileFirst(st, tms, t, diskOk) ==
    IF diskOk
    THEN saveToFile([st EXCEPT !.cacheSet = TRUE, !.cache = tms, !.cacheTs = t],
                    [g \in DOMAIN tms |-> ToJSON(tms[g])], diskOk)
    ELSE st

saveTimersToStorage(st, tms, t, diskOk) ==
    saveToFile([st EXCEPT !.cacheSet = TRUE, !.cache = tms, !.cacheTs = t],
               [g \in DOMAIN tms |-> ToJSON(tms[g])], diskOk)

\* GameDataStorage.createGame: the new record and the store after the save
GameData_createGame(st, id, t, diskOk) ==
    LET gameData == [ id             |-> id,
                      scoreA         |-> 0,
                      scoreB         |-> 0,
                      currentQuarter |-> 1,
                      status         |-> "scheduled",
                      settings       |-> [ quarterLength |-> QuarterMinutes,
                                           totalQuarters |-> TotalQuarters ],
                      createdAt      |-> t,
                      updatedAt      |-> t ]
    IN  Step(loadGamesFromStorage(st, t, diskOk), LAMBDA l :
        [ game  |-> gameData,
          store |-> saveGamesToStorage(l.store, MapSet(l.data, id, gameData), t, diskOk) ])

\* GameDataStorage.getGame
GameData_getGame(st, id, t, diskOk) ==
    Step(loadGamesFromStorage(st, t, diskOk), LAMBDA l :
    [game |-> MapGet(l.data, id), store |-> l.store])

\* GameDataStorage.updateGame: updates is a record of the fields to overwrite
GameData_updateGame(st, id, updates, t, diskOk) ==
    Step(loadGamesFromStorage(st, t, diskOk), LAMBDA l :
    IF id \notin DOMAIN l.data
    THEN [game |-> NoRecord, store |-> l.store]
    ELSE Step([Merge(l.data[id], updates) EXCEPT !.updatedAt = t], LAMBDA updatedGame :
         [ game  |-> updatedGame,
           store |-> saveGamesToStorage(l.store, MapSet(l.data, id, updatedGame),
                                        t, diskOk) ]))

\* GameDataStorage.updateScore: a score never goes below zero
GameData_updateScore(st, id, team, points, t, diskOk) ==
    Step(loadGamesFromStorage(st, t, diskOk), LAMBDA l :
    IF id \notin DOMAIN l.data
    THEN [game |-> NoRecord, store |-> l.store]
    ELSE Step([Merge(l.data[id],
                     IF team = "A"
                     THEN [scoreA |-> Max(0, l.data[id].scoreA + points)]
                     ELSE [scoreB |-> Max(0, l.data[id].scoreB + points)])
                  EXCEPT !.updatedAt = t], LAMBDA updatedGame :
         [ game  |-> updatedGame,
           store |-> saveGamesToStorage(l.store, MapSet(l.data, id, updatedGame),
                                        t, diskOk) ]))

\* GameDataStorage.deleteGame: whether the game existed, and the store
GameData_deleteGame(st, id, t, diskOk) ==
    Step(loadGamesFromStorage(st, t, diskOk), LAMBDA l :
    IF id \in DOMAIN l.data
    THEN [ result |-> TRUE,
           store  |-> saveGamesToStorage(l.store, MapDelete(l.data, id), t, diskOk) ]
    ELSE [result |-> FALSE, store |-> l.store])

GameData_updateQuarter(st, id, quarter, t, diskOk) ==
    GameData_updateGame(st, id, [currentQuarter |-> quarter], t, diskOk)

GameData_endGame(st, id, t, diskOk) ==
    GameData_updateGame(st, id, [status |-> "finished"], t, diskOk)

\* TimerDataStorage.saveTimerState
TimerData_saveTimerState(st, timerData, t, diskOk) ==
    Step(loadTimersFromStorage(st, t, diskOk), LAMBDA l :
    saveTimersToStorage(l.store,
                        MapSet(l.data, timerData.gameId,
                               [timerData EXCEPT !.updatedAt = t]),
                        t, diskOk))

\* TimerDataStorage.getTimerState
TimerData_getTimerState(st, gameId, t, diskOk) ==
    Step(loadTimersFromStorage(st, t, diskOk), LAMBDA l :
    [record |-> MapGet(l.data, gameId), store |-> l.store])

\* TimerDataStorage.deleteTimerState
TimerData_deleteTimerState(st, gameId, t, diskOk) ==
    Step(loadTimersFromStorage(st, t, diskOk), LAMBDA l :
    IF gameId \in DOMAIN l.data
    THEN saveTimersToStorage(l.store, MapDelete(l.data, gameId), t, diskOk)
    ELSE l.store)

----------------------------------------------------------------------------
(* TimerService *)

\* The state TimerService works on, threaded through one handler.
World ==
    [ timers           |-> timers,
      lastAccessed     |-> lastAccessed,
      cleanupInterval  |-> cleanupInterval,
      autoSaveInterval |-> autoSaveInterval,
      timerStore       |-> timerStore,
      gameStore        |-> gameStore ]

\* Variant: the record persisted always says the timer is stopped.
saveTimerStateAsStopped(w, timerState, t, diskOk) ==
    LET persistenceData ==
            [ gameId          |-> timerState.gameId,
              isRunning       |-> FALSE,
              startedAt       |-> timerState.startedAt,
              pausedAt        |-> timerState.pausedAt,
              totalPausedTime |-> timerState.totalPausedTime,
              currentQuarter  |-> timerState.currentQuarter,
              quarterLength   |-> timerState.quarterLength,
              status          |-> timerState.status,
              createdAt       |-> t,
              updatedAt       |-> t ]
    IN  [w EXCEPT !.timerStore =
            TimerData_saveTimerState(w.timerStore, persistenceData, t, diskOk)]

\* TimerService.saveTimerState: the TimerPersistenceData of a timer state
TimerService_saveTimerState(w, timerState, t, diskOk) ==
    LET persistenceData ==
            [ gameId          |-> timerState.gameId,
              isRunning       |-> timerState.isRunning,
              startedAt       |-> timerState.startedAt,
              pausedAt        |-> timerState.pausedAt,
              totalPausedTime |-> timerState.totalPausedTime,
              currentQuarter  |-> timerState.currentQuarter,
              quarterLength   |-> timerState.quarterLength,
              status          |-> timerState.status,
              createdAt       |-> t,
              updatedAt       |-> t ]
    IN  [w EXCEPT !.timerStore =
            TimerData_saveTimerState(w.timerStore, persistenceData, t, diskOk)]

\* Variant: the restore forgets startedAt.
RestoreFieldsWithoutStartedAt(persistedTimer) ==
    [ isRunning       |-> persistedTimer.isRunning,
      pausedAt        |-> persistedTimer.pausedAt,
      totalPausedTime |-> persistedTimer.totalPausedTime,
      quarterLength   |-> persistedTimer.quarterLength,
      currentQuarter  |-> persistedTimer.currentQuarter,
      gameId          |-> persistedTimer.gameId,
      status          |-> persistedTimer.status ]

\* the fields getOrCreateTimer hands to syncWithState() when it restores
RestoreFields(persistedTimer) ==
    [ isRunning       |-> persistedTimer.isRunning,
      startedAt       |-> persistedTimer.startedAt,
      pausedAt        |-> persistedTimer.pausedAt,
      totalPausedTime |-> persistedTimer.totalPausedTime,
      quarterLength   |-> persistedTimer.quarterLength,
      currentQuarter  |-> persistedTimer.currentQuarter,
      gameId          |-> persistedTimer.gameId,
      status          |-> persistedTimer.status ]

\* initializeCleanup: schedules whichever job is not scheduled
initializeCleanup(w) ==
    [w EXCEPT !.cleanupInterval = TRUE, !.autoSaveInterval = TRUE]

\* Variant: the registry never finds the instance it holds.
HasTimerNever(w, gameId) == FALSE

\* this.timers.has(gameId)
HasTimer(w, gameId) == gameId \in DOMAIN w.timers

\* getOrCreateTimer: the world after the call, the record restored from
\* (NoRecord when the timer was live already or was created fresh) and the
\* number of TimerManager instances constructed
getOrCreateTimer(w, gameData, t, diskOk) ==
    Step(initializeCleanup(w), LAMBDA w1 :
    Step([w1 EXCEPT !.lastAccessed = MapSet(w1.lastAccessed, gameData.id, t)], LAMBDA w2 :
    IF HasTimer(w2, gameData.id)
    THEN [world |-> w2, restoredFrom |-> NoRecord, created |-> 0]
    ELSE Step(TimerData_getTimerState(w2.timerStore, gameData.id, t, diskOk), LAMBDA r :
         Step([w2 EXCEPT !.timerStore = r.store], LAMBDA w3 :
         IF r.record # NoRecord
         THEN Step(syncWithState(NewTimerState(gameData.id, r.record.quarterLength),
                                 RestoreFields(r.record), t).state, LAMBDA st :
              [ world        |-> [w3 EXCEPT !.timers = MapSet(w3.timers, gameData.id, st)],
                restoredFrom |-> r.record, created |-> 1 ])
         ELSE Step(NewTimerState(gameData.id,
                                 gameData.settings.quarterLength * TicksPerMinute), LAMBDA st :
              Step(TimerService_saveTimerState(w3, st, t, diskOk), LAMBDA w4 :
              [ world        |-> [w4 EXCEPT !.timers = MapSet(w4.timers, gameData.id, st)],
                restoredFrom |-> NoRecord, created |-> 1 ]))))))

\* Variant: the subscriber only saves the timer state.
OnTimerEventSavingOnly(w, gameId, event, t, diskOk) ==
    IF event = NoEvent THEN w
    ELSE TimerService_saveTimerState(w, event.state, t, diskOk)

\* The subscriber getOrCreateTimer attaches: write-through, then the game
\* record follows a quarter change and the end of the game.
OnTimerEvent(w, gameId, event, t, diskOk) ==
    IF event = NoEvent THEN w
    ELSE Step(TimerService_saveTimerState(w, event.state, t, diskOk), LAMBDA w1 :
         Step(IF event.type = "nextQuarter"
              THEN [w1 EXCEPT !.gameStore =
                      GameData_updateQuarter(w1.gameStore, gameId,
                                             event.state.currentQuarter, t, diskOk).store]
              ELSE w1, LAMBDA w2 :
         IF event.state.status = "finished"
         THEN [w2 EXCEPT !.gameStore =
                 GameData_endGame(w2.gameStore, gameId, t, diskOk).store]
         ELSE w2))

\* GameDataTransformer.combineGameWithTimer
combineGameWithTimer(gameData, timeRemaining, isRunning, expired) ==
    [ game           |-> gameData,
      timeRemaining  |-> timeRemaining,
      isRunning      |-> isRunning,
      isExpired      |-> expired,
      isGameFinished |-> gameData.status = "finished" ]

\* Variant: a read of an unknown id still records the access.
getGameWithTimerTouchingUnknown(w, gameId, t, diskOk) ==
    Step(GameData_getGame(w.gameStore, gameId, t, diskOk), LAMBDA g :
    Step([w EXCEPT !.gameStore = g.store,
                   !.lastAccessed = MapSet(w.lastAccessed, gameId, t)], LAMBDA w1 :
    IF g.game = NoRecord
    THEN [world |-> w1, result |-> NoRecord, restoredFrom |-> NoRecord, created |-> 0]
    ELSE Step([w1 EXCEPT !.lastAccessed = MapSet(w1.lastAccessed, gameId, t)], LAMBDA w2 :
         Step(getOrCreateTimer(w2, g.game, t, diskOk), LAMBDA c :
         Step(c.world.timers[gameId], LAMBDA st :
         [ world        |-> c.world,
           result       |-> combineGameWithTimer(g.game, getCurrentTime(st, t),
                                                 st.isRunning, isExpired(st, t)),
           restoredFrom |-> c.restoredFrom, created |-> c.created ])))))

\* getGameWithTimer: the world after the call, the GameWithTimer returned
\* (NoRecord for null) and the record a restore read
getGameWithTimer(w, gameId, t, diskOk) ==
    Step(GameData_getGame(w.gameStore, gameId, t, diskOk), LAMBDA g :
    Step([w EXCEPT !.gameStore = g.store], LAMBDA w1 :
    IF g.game = NoRecord
    THEN [world |-> w1, result |-> NoRecord, restoredFrom |-> NoRecord, created |-> 0]
    ELSE Step([w1 EXCEPT !.lastAccessed = MapSet(w1.lastAccessed, gameId, t)], LAMBDA w2 :
         Step(getOrCreateTimer(w2, g.game, t, diskOk), LAMBDA c :
         Step(c.world.timers[gameId], LAMBDA st :
         [ world        |-> c.world,
           result       |-> combineGameWithTimer(g.game, getCurrentTime(st, t),
                                                 st.isRunning, isExpired(st, t)),
           restoredFrom |-> c.restoredFrom, created |-> c.created ])))))

\* A timer call made through the registry: the call is applied to the timer
\* and the subscriber sees the event.
ApplyTimerCall(w, gameData, r, t, diskOk) ==
    OnTimerEvent([w EXCEPT !.timers = MapSet(w.timers, gameData.id, r.state)],
                 gameData.id, r.event, t, diskOk)

startTimer(w, gameId, t, diskOk) ==
    Step(GameData_getGame(w.gameStore, gameId, t, diskOk), LAMBDA g :
    Step([w EXCEPT !.gameStore = g.store], LAMBDA w1 :
    IF g.game = NoRecord
    THEN [world |-> w1, result |-> NoRecord, restoredFrom |-> NoRecord, created |-> 0]
    ELSE Step(getOrCreateTimer(w1, g.game, t, diskOk), LAMBDA c :
         Step(ApplyTimerCall(c.world, g.game,
                             start(c.world.timers[gameId], t), t, diskOk), LAMBDA w2 :
         Step(IF g.game.status # "live"
              THEN [w2 EXCEPT !.gameStore =
                      GameData_updateGame(w2.gameStore, gameId,
                                          [status |-> "live"], t, diskOk).store]
              ELSE w2, LAMBDA w3 :
         Step(getGameWithTimer(w3, gameId, t, diskOk), LAMBDA v :
         [ world |-> v.world, result |-> v.result, restoredFrom |-> c.restoredFrom,
           created |-> c.created + v.created ]))))))

pauseTimer(w, gameId, t, diskOk) ==
    Step(GameData_getGame(w.gameStore, gameId, t, diskOk), LAMBDA g :
    Step([w EXCEPT !.gameStore = g.store], LAMBDA w1 :
    IF g.game = NoRecord
    THEN [world |-> w1, result |-> NoRecord, restoredFrom |-> NoRecord, created |-> 0]
    ELSE Step(getOrCreateTimer(w1, g.game, t, diskOk), LAMBDA c :
         Step(ApplyTimerCall(c.world, g.game,
                             pause(c.world.timers[gameId], t), t, diskOk), LAMBDA w2 :
         Step(IF g.game.status # "scheduled"
              THEN [w2 EXCEPT !.gameStore =
                      GameData_updateGame(w2.gameStore, gameId,
                                          [status |-> "scheduled"], t, diskOk).store]
              ELSE w2, LAMBDA w3 :
         Step(getGameWithTimer(w3, gameId, t, diskOk), LAMBDA v :
         [ world |-> v.world, result |-> v.result, restoredFrom |-> c.restoredFrom,
           created |-> c.created + v.created ]))))))

TimerService_nextQuarter(w, gameId, t, diskOk) ==
    Step(GameData_getGame(w.gameStore, gameId, t, diskOk), LAMBDA g :
    Step([w EXCEPT !.gameStore = g.store], LAMBDA w1 :
    IF g.game = NoRecord
    THEN [world |-> w1, result |-> NoRecord, restoredFrom |-> NoRecord, created |-> 0]
    ELSE Step(getOrCreateTimer(w1, g.game, t, diskOk), LAMBDA c :
         Step(ApplyTimerCall(c.world, g.game,
                             nextQuarter(c.world.timers[gameId], t,
                                         g.game.settings.totalQuarters),
                             t, diskOk), LAMBDA w2 :
         Step(getGameWithTimer(w2, gameId, t, diskOk), LAMBDA v :
         [ world |-> v.world, result |-> v.result, restoredFrom |-> c.restoredFrom,
           created |-> c.created + v.created ])))))

resetTimer(w, gameId, t, diskOk) ==
    Step(GameData_getGame(w.gameStore, gameId, t, diskOk), LAMBDA g :
    Step([w EXCEPT !.gameStore = g.store], LAMBDA w1 :
    IF g.game = NoRecord
    THEN [world |-> w1, result |-> NoRecord, restoredFrom |-> NoRecord, created |-> 0]
    ELSE Step(getOrCreateTimer(w1, g.game, t, diskOk), LAMBDA c :
         Step(ApplyTimerCall(c.world, g.game,
                             reset(c.world.timers[gameId], t), t, diskOk), LAMBDA w2 :
         Step(getGameWithTimer(w2, gameId, t, diskOk), LAMBDA v :
         [ world |-> v.world, result |-> v.result, restoredFrom |-> c.restoredFrom,
           created |-> c.created + v.created ])))))

\* syncTimer: externalTimerState is a record of the fields to overwrite
syncTimer(w, gameId, externalTimerState, t, diskOk) ==
    Step(GameData_getGame(w.gameStore, gameId, t, diskOk), LAMBDA g :
    Step([w EXCEPT !.gameStore = g.store], LAMBDA w1 :
    IF g.game = NoRecord
    THEN [world |-> w1, result |-> NoRecord, restoredFrom |-> NoRecord, created |-> 0]
    ELSE Step(getOrCreateTimer(w1, g.game, t, diskOk), LAMBDA c :
         Step(ApplyTimerCall(c.world, g.game,
                             syncWithState(c.world.timers[gameId], externalTimerState, t),
                             t, diskOk), LAMBDA w2 :
         Step(getGameWithTimer(w2, gameId, t, diskOk), LAMBDA v :
         [ world |-> v.world, result |-> v.result, restoredFrom |-> c.restoredFrom,
           created |-> c.created + v.created ])))))

\* Variant: a score update also pauses the clock.
updateScorePausing(w, gameId, team, points, t, diskOk) ==
    Step(GameData_updateScore(w.gameStore, gameId, team, points, t, diskOk), LAMBDA u :
    Step([w EXCEPT !.gameStore = u.store], LAMBDA w1 :
    IF u.game = NoRecord
    THEN [world |-> w1, result |-> NoRecord, restoredFrom |-> NoRecord, created |-> 0]
    ELSE pauseTimer(w1, gameId, t, diskOk)))

\* updateScore: the timer is not involved until the state is read back
updateScore(w, gameId, team, points, t, diskOk) ==
    Step(GameData_updateScore(w.gameStore, gameId, team, points, t, diskOk), LAMBDA u :
    Step([w EXCEPT !.gameStore = u.store], LAMBDA w1 :
    IF u.game = NoRecord
    THEN [world |-> w1, result |-> NoRecord, restoredFrom |-> NoRecord, created |-> 0]
    ELSE getGameWithTimer(w1, gameId, t, diskOk)))

\* deleteGame: the timer, its persisted record, then the game record;
\* lastAccessed keeps its entry
deleteGame(w, gameId, t, diskOk) ==
    Step([w EXCEPT !.timers = MapDelete(w.timers, gameId)], LAMBDA w1 :
    Step([w1 EXCEPT !.timerStore =
            TimerData_deleteTimerState(w1.timerStore, gameId, t, diskOk)], LAMBDA w2 :
    Step(GameData_deleteGame(w2.gameStore, gameId, t, diskOk), LAMBDA d :
    [world |-> [w2 EXCEPT !.gameStore = d.store], result |-> d.result])))

\* createGame: GameDataStorage.createGame, then the first access creates the timer
createGame(w, id, t, diskOk) ==
    LET c == GameData_createGame(w.gameStore, id, t, diskOk)
    IN  getGameWithTimer([w EXCEPT !.gameStore = c.store], id, t, diskOk)


\* saveAllTimerStates: one saveTimerState per live timer
RECURSIVE saveAllTimerStates(_, _, _, _)
saveAllTimerStates(w, ids, t, diskOk) ==
    IF ids = {} THEN w
    ELSE LET g == CHOOSE x \in ids : TRUE
         IN  saveAllTimerStates(TimerService_saveTimerState(w, w.timers[g], t, diskOk),
                                ids \ {g}, t, diskOk)

\* Variant: the auto-save stops the clocks it saves.
performAutoSaveStopping(w, t, diskOk) ==
    IF DOMAIN w.timers = {} THEN w
    ELSE Step(saveAllTimerStates(w, DOMAIN w.timers, t, diskOk), LAMBDA w1 :
         [w1 EXCEPT !.timers = [g \in DOMAIN w1.timers |->
                                  [w1.timers[g] EXCEPT !.isRunning = FALSE]]])

\* performAutoSave
performAutoSave(w, t, diskOk) ==
    IF DOMAIN w.timers = {} THEN w
    ELSE saveAllTimerStates(w, DOMAIN w.timers, t, diskOk)

\* Variant: shutdown clears the intervals without forgetting them.
shutdownKeepsJobHandles(w, t, diskOk) ==
    Step(saveAllTimerStates(w, DOMAIN w.timers, t, diskOk), LAMBDA w1 :
    [ world     |-> [w1 EXCEPT !.timers = EmptyMap,
                               !.lastAccessed = EmptyMap],
      cancelled |-> (IF w1.cleanupInterval THEN 1 ELSE 0)
                    + (IF w1.autoSaveInterval THEN 1 ELSE 0) ])

\* shutdown: the world after the call and the number of clearInterval calls
shutdown(w, t, diskOk) ==
    Step(saveAllTimerStates(w, DOMAIN w.timers, t, diskOk), LAMBDA w1 :
    [ world     |-> [w1 EXCEPT !.cleanupInterval = FALSE,
                               !.autoSaveInterval = FALSE,
                               !.timers = EmptyMap,
                               !.lastAccessed = EmptyMap],
      cancelled |-> (IF w1.cleanupInterval THEN 1 ELSE 0)
                    + (IF w1.autoSaveInterval THEN 1 ELSE 0) ])

\* the ids whose last access is older than the TTL
StaleTimers(w, t) == {g \in DOMAIN w.lastAccessed : t - w.lastAccessed[g] > TIMER_TTL}

\* the number of entries the cap check removes after the TTL pass
ExcessCount(w, t) ==
    LET left == Cardinality(DOMAIN w.timers \ StaleTimers(w, t))
    IN  IF left > MAX_TIMER_INSTANCES THEN left - MAX_TIMER_INSTANCES ELSE 0

\* Variant: the slice is taken without sorting by access time.
IsUnsortedSlice(la, victims, n) ==
    /\ victims \subseteq DOMAIN la
    /\ Cardinality(victims) = Min(n, Cardinality(DOMAIN la))

\* sortedByAccess.slice(0, n): n entries of lastAccessed none of which was
\* accessed later than an entry left out (ties go either way)
IsOldestSlice(la, victims, n) ==
    /\ victims \subseteq DOMAIN la
    /\ Cardinality(victims) = Min(n, Cardinality(DOMAIN la))
    /\ \A v \in victims : \A k \in DOMAIN la \ victims : la[v] <= la[k]

\* Variant: the sweep without its TTL pass.
cleanupWithoutTTLPass(w, t, victims) ==
    LET gone == victims
    IN  [w EXCEPT !.timers = [g \in DOMAIN w.timers \ gone |-> w.timers[g]],
                  !.lastAccessed = [g \in DOMAIN w.lastAccessed \ gone |-> w.lastAccessed[g]]]

\* performAutomaticCleanup, with the slice the sort selected
performAutomaticCleanup(w, t, victims) ==
    LET gone == StaleTimers(w, t) \cup victims
    IN  [w EXCEPT !.timers = [g \in DOMAIN w.timers \ gone |-> w.timers[g]],
                  !.lastAccessed = [g \in DOMAIN w.lastAccessed \ gone |-> w.lastAccessed[g]]]

\* getMemoryStats: access times are Null when nothing has been accessed
getMemoryStats(w) ==
    LET accessTimes == {w.lastAccessed[g] : g \in DOMAIN w.lastAccessed}
        size == Cardinality(DOMAIN w.timers)
    IN  [ activeTimers   |-> size,
          oldestAccess   |-> IF accessTimes = {} THEN Null
                             ELSE CHOOSE a \in accessTimes : \A b \in accessTimes : a <= b,
          newestAccess   |-> IF accessTimes = {} THEN Null
                             ELSE CHOOSE a \in accessTimes : \A b \in accessTimes : a >= b,
          memoryPressure |-> IF size * 10 > MAX_TIMER_INSTANCES * 8 THEN "high"
                             ELSE IF size * 10 > MAX_TIMER_INSTANCES * 5 THEN "medium"
                             ELSE "low" ]

----------------------------------------------------------------------------
(* TimerService while TimerDataStorage.saveTimerState raises: an exception
   leaves a method at the call that raised, with the assignments made so far *)

\* getOrCreateTimer: the save of a fresh timer's state raises before the
\* timer is registered; a live or restored timer needs no save
getOrCreateTimerRaising(w, gameData, t) ==
    Step(initializeCleanup(w), LAMBDA w1 :
    Step([w1 EXCEPT !.lastAccessed = MapSet(w1.lastAccessed, gameData.id, t)], LAMBDA w2 :
    IF HasTimer(w2, gameData.id)
    THEN [world |-> w2, raised |-> FALSE]
    ELSE Step(TimerData_getTimerState(w2.timerStore, gameData.id, t, TRUE), LAMBDA r :
         Step([w2 EXCEPT !.timerStore = r.store], LAMBDA w3 :
         IF r.record # NoRecord
         THEN Step(syncWithState(NewTimerState(gameData.id, r.record.quarterLength),
                                 RestoreFields(r.record), t).state, LAMBDA st :
              [ world  |-> [w3 EXCEPT !.timers = MapSet(w3.timers, gameData.id, st)],
                raised |-> FALSE ])
         ELSE [world |-> w3, raised |-> TRUE]))))

\* getGameWithTimer: nothing between it and getOrCreateTimer catches
getGameWithTimerRaising(w, gameId, t) ==
    Step(GameData_getGame(w.gameStore, gameId, t, TRUE), LAMBDA g :
    Step([w EXCEPT !.gameStore = g.store], LAMBDA w1 :
    IF g.game = NoRecord
    THEN [world |-> w1, result |-> NoRecord, raised |-> FALSE]
    ELSE Step([w1 EXCEPT !.lastAccessed = MapSet(w1.lastAccessed, gameId, t)], LAMBDA w2 :
         Step(getOrCreateTimerRaising(w2, g.game, t), LAMBDA c :
         IF c.raised
         THEN [world |-> c.world, result |-> NoRecord, raised |-> TRUE]
         ELSE Step(c.world.timers[gameId], LAMBDA st :
              [ world  |-> c.world,
                result |-> combineGameWithTimer(g.game, getCurrentTime(st, t),
                                                st.isRunning, isExpired(st, t)),
                raised |-> FALSE ])))))

\* createGame: the game record is stored, then the first access raises
createGameRaising(w, id, t) ==
    LET c == GameData_createGame(w.gameStore, id, t, TRUE)
    IN  getGameWithTimerRaising([w EXCEPT !.gameStore = c.store], id, t)

\* startTimer: the subscriber's save raises inside emitEvent, which catches
\* it, so the timer changes in memory only
startTimerRaising(w, gameId, t) ==
    Step(GameData_getGame(w.gameStore, gameId, t, TRUE), LAMBDA g :
    Step([w EXCEPT !.gameStore = g.store], LAMBDA w1 :
    IF g.game = NoRecord
    THEN [world |-> w1, result |-> NoRecord, raised |-> FALSE]
    ELSE Step(getOrCreateTimerRaising(w1, g.game, t), LAMBDA c :
         IF c.raised
         THEN [world |-> c.world, result |-> NoRecord, raised |-> TRUE]
         ELSE Step([c.world EXCEPT !.timers =
                        MapSet(c.world.timers, gameId,
                               start(c.world.timers[gameId], t).state)], LAMBDA w2 :
              Step(IF g.game.status # "live"
                   THEN [w2 EXCEPT !.gameStore =
                           GameData_updateGame(w2.gameStore, gameId,
                                               [status |-> "live"], t, TRUE).store]
                   ELSE w2, LAMBDA w3 :
              getGameWithTimerRaising(w3, gameId, t))))))

\* pauseTimer, likewise
pauseTimerRaising(w, gameId, t) ==
    Step(GameData_getGame(w.gameStore, gameId, t, TRUE), LAMBDA g :
    Step([w EXCEPT !.gameStore = g.store], LAMBDA w1 :
    IF g.game = NoRecord
    THEN [world |-> w1, result |-> NoRecord, raised |-> FALSE]
    ELSE Step(getOrCreateTimerRaising(w1, g.game, t), LAMBDA c :
         IF c.raised
         THEN [world |-> c.world, result |-> NoRecord, raised |-> TRUE]
         ELSE Step([c.world EXCEPT !.timers =
                        MapSet(c.world.timers, gameId,
                               pause(c.world.timers[gameId], t).state)], LAMBDA w2 :
              Step(IF g.game.status # "scheduled"
                   THEN [w2 EXCEPT !.gameStore =
                           GameData_updateGame(w2.gameStore, gameId,
                                               [status |-> "scheduled"], t, TRUE).store]
                   ELSE w2, LAMBDA w3 :
              getGameWithTimerRaising(w3, gameId, t))))))

\* a call that returned
Returned(r) == [world |-> r.world, result |-> r.result, raised |-> FALSE]

----------------------------------------------------------------------------
(* The registry driven by arbitrary requests, its two background jobs and
   the passage of time *)

NoCall == [op |-> "none"]

\* the registry of a fresh process: nothing stored, the ids still to hand out,
\* and whether the file system may fail
RegInitWith(ids, mayFail) ==
    /\ timers = EmptyMap
    /\ lastAccessed = EmptyMap
    /\ cleanupInterval = FALSE
    /\ autoSaveInterval = FALSE
    /\ timerStore = EmptyStore
    /\ gameStore = EmptyStore
    /\ idPool = ids
    /\ diskMayFail = mayFail
    /\ regLast = NoCall

RegInit == RegInitWith(GameIds, TRUE)

SetWorld(w) ==
    /\ timers' = w.timers
    /\ lastAccessed' = w.lastAccessed
    /\ cleanupInterval' = w.cleanupInterval
    /\ autoSaveInterval' = w.autoSaveInterval
    /\ timerStore' = w.timerStore
    /\ gameStore' = w.gameStore

\* outcomes of the file system calls of one handler: TRUE when they succeed;
\* single-fault runs: at most one handler finds the file system failing
DiskOutcomes == IF diskMayFail THEN BOOLEAN ELSE {TRUE}

\* a request handled: the world it leaves and the call recorded
Handled(op, gameId, diskOk, r) ==
    /\ SetWorld(r.world)
    /\ diskMayFail' = (diskMayFail /\ diskOk)
    /\ regLast' = [ op |-> op, gameId |-> gameId, found |-> r.result # NoRecord,
                    restoredFrom |-> r.restoredFrom, created |-> r.created ]
    /\ UNCHANGED <<now, clockVars, otherVars>>

RegTick ==
    /\ now < RegMaxTime
    /\ now' = now + 1
    /\ UNCHANGED <<clockVars, otherVars, regVars>>

CreateGame ==
    \E id \in idPool : \E diskOk \in DiskOutcomes :
        /\ \E r \in {createGame(World, id, now, diskOk)} : Handled("createGame", id, diskOk, r)
        /\ idPool' = idPool \ {id}

\* getGameWithTimer() called for one of the ids given
GetGameWithTimerOf(ids) ==
    \E id \in ids : \E diskOk \in DiskOutcomes :
        /\ \E r \in {getGameWithTimer(World, id, now, diskOk)} : Handled("getGameWithTimer", id, diskOk, r)
        /\ UNCHANGED idPool

GetGameWithTimer == GetGameWithTimerOf(GameIds)

StartTimer ==
    \E id \in GameIds : \E diskOk \in DiskOutcomes :
        /\ \E r \in {startTimer(World, id, now, diskOk)} : Handled("startTimer", id, diskOk, r)
        /\ UNCHANGED idPool

PauseTimer ==
    \E id \in GameIds : \E diskOk \in DiskOutcomes :
        /\ \E r \in {pauseTimer(World, id, now, diskOk)} : Handled("pauseTimer", id, diskOk, r)
        /\ UNCHANGED idPool

NextQuarter ==
    \E id \in GameIds : \E diskOk \in DiskOutcomes :
        /\ \E r \in {TimerService_nextQuarter(World, id, now, diskOk)} : Handled("nextQuarter", id, diskOk, r)
        /\ UNCHANGED idPool

ResetTimer ==
    \E id \in GameIds : \E diskOk \in DiskOutcomes :
        /\ \E r \in {resetTimer(World, id, now, diskOk)} : Handled("resetTimer", id, diskOk, r)
        /\ UNCHANGED idPool

\* the cleanup job fires
AutomaticCleanup ==
    /\ cleanupInterval
    /\ \E victims \in SUBSET DOMAIN lastAccessed :
          /\ IsOldestSlice([g \in DOMAIN lastAccessed \ StaleTimers(World, now)
                               |-> lastAccessed[g]],
                           victims, ExcessCount(World, now))
          /\ \E w \in {performAutomaticCleanup(World, now, victims)} : SetWorld(w)
    /\ regLast' = [op |-> "performAutomaticCleanup"]
    /\ UNCHANGED <<now, clockVars, otherVars, idPool, diskMayFail>>

\* the auto-save job fires
AutoSave ==
    /\ autoSaveInterval
    /\ \E diskOk \in DiskOutcomes :
          /\ \E w \in {performAutoSave(World, now, diskOk)} : SetWorld(w)
          /\ diskMayFail' = (diskMayFail /\ diskOk)
    /\ regLast' = [op |-> "performAutoSave"]
    /\ UNCHANGED <<now, clockVars, otherVars, idPool>>

\* external states handed to syncTimer()
ServiceSyncInputs(t) ==
    { [isRunning |-> TRUE, startedAt |-> t, status |-> "live"] }

SyncTimer ==
    \E id \in GameIds : \E diskOk \in DiskOutcomes : \E p \in ServiceSyncInputs(now) :
        /\ \E r \in {syncTimer(World, id, p, now, diskOk)} : Handled("syncTimer", id, diskOk, r)
        /\ UNCHANGED idPool

\* a goal scored or taken back; scores stay within MaxScore
UpdateScore ==
    \E id \in GameIds : \E diskOk \in DiskOutcomes : \E points \in {1, -1} :
        /\ \E r \in {updateScore(World, id, "A", points, now, diskOk)} :
              /\ r.result # NoRecord => r.result.game.scoreA <= MaxScore
              /\ Handled("updateScore", id, diskOk, r)
        /\ UNCHANGED idPool

\* deleteGame() called for one of the ids given
DeleteGameOf(ids) ==
    \E id \in ids : \E diskOk \in DiskOutcomes :
        /\ \E r \in {deleteGame(World, id, now, diskOk)} :
              /\ SetWorld(r.world)
              /\ regLast' = [op |-> "deleteGame", gameId |-> id, found |-> r.result]
        /\ diskMayFail' = (diskMayFail /\ diskOk)
        /\ UNCHANGED <<now, clockVars, otherVars, idPool>>

DeleteGame == DeleteGameOf(GameIds)

Shutdown ==
    \E diskOk \in DiskOutcomes :
        /\ \E r \in {shutdown(World, now, diskOk)} :
              /\ SetWorld(r.world)
              /\ regLast' = [ op |-> "shutdown", cancelled |-> r.cancelled,
                              flushed |-> DOMAIN timers ]
        /\ diskMayFail' = (diskMayFail /\ diskOk)
        /\ UNCHANGED <<now, clockVars, otherVars, idPool>>

RegNext ==
    \/ RegTick
    \/ CreateGame
    \/ GetGameWithTimer
    \/ StartTimer
    \/ PauseTimer
    \/ NextQuarter
    \/ ResetTimer
    \/ AutomaticCleanup
    \/ AutoSave

ServiceTick ==
    /\ now < ServiceMaxTime
    /\ now' = now + 1
    /\ UNCHANGED <<clockVars, otherVars, regVars>>

\* the commands of the service and its shutdown while time passes, no
\* background job
ServiceNext ==
    \/ ServiceTick
    \/ CreateGame
    \/ StartTimer
    \/ PauseTimer
    \/ NextQuarter
    \/ ResetTimer
    \/ SyncTimer
    \/ Shutdown

\* every request the service takes for a game id, at one instant
\* score updates between timer commands and shutdowns while time passes
ScoreNext ==
    \/ ServiceTick
    \/ CreateGame
    \/ StartTimer
    \/ PauseTimer
    \/ UpdateScore
    \/ Shutdown

RequestNext ==
    \/ CreateGame
    \/ GetGameWithTimer
    \/ StartTimer
    \/ PauseTimer
    \/ NextQuarter
    \/ ResetTimer
    \/ SyncTimer
    \/ UpdateScore
    \/ DeleteGame

\* a request handled over a timer store whose save may raise
HandledSaving(op, gameId, saveOk, r) ==
    /\ SetWorld(r.world)
    /\ regLast' = [ op |-> op, gameId |-> gameId, found |-> r.result # NoRecord,
                    saveOk |-> saveOk, raised |-> r.raised ]
    /\ UNCHANGED <<now, clockVars, otherVars, diskMayFail>>

CreateGameSaving ==
    \E id \in idPool : \E saveOk \in BOOLEAN :
        /\ \E r \in {IF saveOk THEN Returned(createGame(World, id, now, TRUE))
                              ELSE createGameRaising(World, id, now)} :
              HandledSaving("createGame", id, saveOk, r)
        /\ idPool' = idPool \ {id}

StartTimerSaving ==
    \E id \in GameIds : \E saveOk \in BOOLEAN :
        /\ \E r \in {IF saveOk THEN Returned(startTimer(World, id, now, TRUE))
                              ELSE startTimerRaising(World, id, now)} :
              HandledSaving("startTimer", id, saveOk, r)
        /\ UNCHANGED idPool

PauseTimerSaving ==
    \E id \in GameIds : \E saveOk \in BOOLEAN :
        /\ \E r \in {IF saveOk THEN Returned(pauseTimer(World, id, now, TRUE))
                              ELSE pauseTimerRaising(World, id, now)} :
              HandledSaving("pauseTimer", id, saveOk, r)
        /\ UNCHANGED idPool

\* creations and commands while the timer store's save sometimes raises
SavingNext ==
    \/ ServiceTick
    \/ CreateGameSaving
    \/ StartTimerSaving
    \/ PauseTimerSaving

EvictionTick ==
    /\ now < EvictionMaxTime
    /\ now' = now + 1
    /\ UNCHANGED <<clockVars, otherVars, regVars>>

GetAnyGameWithTimer == GetGameWithTimerOf(EvictionIds)

DeleteAnyGame == DeleteGameOf(EvictionIds)

\* several games created, read and deleted while the cleanup job runs
EvictionNext ==
    \/ EvictionTick
    \/ CreateGame
    \/ GetAnyGameWithTimer
    \/ DeleteAnyGame
    \/ AutomaticCleanup

----------------------------------------------------------------------------
(* TimerManager.listeners: subscribe() and the notification of emitEvent() *)

\* the listeners of the run; those of ThrowingListeners throw when invoked
ListenerIds == {"l1", "bad", "l2"}
ThrowingListeners == {"bad"}

SeqRange(s) == {s[i] : i \in DOMAIN s}

NotDelivered == [l \in ListenerIds |-> [count |-> 0, event |-> NoEvent]]

ListenersIdle ==
    /\ listeners = <<>>
    /\ delivered = NotDelivered
    /\ raised = FALSE

\* Variant: the returned function removes nothing.
unsubscribeKeeping(ls, l) == ls

\* the function subscribe() returns: this.listeners.delete(listener)
unsubscribe(ls, l) == SelectSeq(ls, LAMBDA x : x # l)

\* Variant: the listeners are kept in an array, a listener added again is
\* held twice.
subscribeAgain(ls, l) == Append(ls, l)

\* subscribe(): this.listeners.add(listener); a Set keeps insertion order
\* and holds a listener once
subscribe(ls, l) == IF l \in SeqRange(ls) THEN ls ELSE Append(ls, l)

\* this.listeners.forEach of emitEvent: each listener is called inside
\* try/catch, so a throw is logged and the loop goes on
RECURSIVE forEachListener(_, _, _)
forEachListener(ls, event, d) ==
    IF ls = <<>> THEN [delivered |-> d, raised |-> FALSE]
    ELSE forEachListener(Tail(ls), event,
             [d EXCEPT ![Head(ls)] = [count |-> @.count + 1, event |-> event]])

\* the same loop without try/catch: the first throw leaves the loop and
\* the call
RECURSIVE forEachListenerUncaught(_, _, _)
forEachListenerUncaught(ls, event, d) ==
    IF ls = <<>> THEN [delivered |-> d, raised |-> FALSE]
    ELSE LET d1 == [d EXCEPT ![Head(ls)] = [count |-> @.count + 1, event |-> event]]
         IN  IF Head(ls) \in ThrowingListeners
             THEN [delivered |-> d1, raised |-> TRUE]
             ELSE forEachListenerUncaught(Tail(ls), event, d1)

\* Variant: a listener that throws ends the notification.
notifyListenersUncaught(ls, event) ==
    IF event = NoEvent THEN [delivered |-> NotDelivered, raised |-> FALSE]
    ELSE forEachListenerUncaught(ls, event, NotDelivered)

\* what one TimerManager call does to the listeners: nothing when it emitted
\* no event, else emitEvent's loop
notifyListeners(ls, event) ==
    IF event = NoEvent THEN [delivered |-> NotDelivered, raised |-> FALSE]
    ELSE forEachListener(ls, event, NotDelivered)

ListenerTick ==
    /\ now < ListenerMaxTime
    /\ now' = now + 1
    /\ UNCHANGED <<clockVars, regVars, otherVars>>

Subscribe ==
    \E l \in ListenerIds :
        /\ Len(listeners) < Cardinality(ListenerIds)
        /\ listeners' = subscribe(listeners, l)
        /\ lastOp' = "subscribe"
        /\ UNCHANGED <<now, timer, lastEvent, synced, ranTotal, nqCount, regVars,
                       hookVars, peerVars, delivered, raised>>

Unsubscribe ==
    \E l \in SeqRange(listeners) :
        /\ listeners' = unsubscribe(listeners, l)
        /\ lastOp' = "unsubscribe"
        /\ UNCHANGED <<now, timer, lastEvent, synced, ranTotal, nqCount, regVars,
                       hookVars, peerVars, delivered, raised>>

\* one call of the TimerManager with its listeners
ListenerCall(op, r) ==
    /\ timer' = r.state
    /\ lastEvent' = r.event
    /\ lastOp' = op
    /\ \E n \in {notifyListeners(listeners, r.event)} :
        /\ delivered' = n.delivered
        /\ raised' = n.raised
    /\ UNCHANGED <<now, synced, ranTotal, nqCount, regVars, hookVars, peerVars, listeners>>

ListenerStart == ListenerCall("start", start(timer, now))

ListenerPause == ListenerCall("pause", pause(timer, now))

ListenerNextQuarter == ListenerCall("nextQuarter", nextQuarter(timer, now, TotalQuarters))

ListenerReset == ListenerCall("reset", reset(timer, now))

ListenerNext ==
    \/ ListenerTick
    \/ Subscribe
    \/ Unsubscribe
    \/ ListenerStart
    \/ ListenerPause
    \/ ListenerNextQuarter
    \/ ListenerReset

----------------------------------------------------------------------------
(* useTimer (hooks/useTimer.ts) and the two pages that use it: the admin
   page (app/admin/[id]/page.tsx) through useAdminTimer, the spectator page
   through useSpectatorTimer.  Each hook owns a TimerManager of its own. *)

\* useTimer once its first effect has run: the TimerManager just built, the
\* listener subscribed, the React state set from the initial state
MountedHook(gameId) ==
    LET t == NewTimerState(gameId, HookQuarterLength)
    IN  [ timer          |-> t,
          subscribed     |-> TRUE,
          timeRemaining  |-> getCurrentTime(t, 0),
          isRunning      |-> t.isRunning,
          currentQuarter |-> t.currentQuarter,
          status         |-> t.status,
          gameData       |-> NoRecord ]

NoPageStep == [page |-> "none", op |-> "none"]

HooksIdle ==
    /\ adminHook = MountedHook("g1")
    /\ spectatorHook = MountedHook("g1")
    /\ adminCommands = 0
    /\ hookLast = NoPageStep

\* the listener useTimer subscribes: the React state follows the event
HookListener(h, event, t) ==
    [h EXCEPT !.timeRemaining  = getCurrentTime(h.timer, t),
              !.isRunning      = event.state.isRunning,
              !.currentQuarter = event.state.currentQuarter,
              !.status         = event.state.status]

\* start/pause/nextQuarter/reset of the hook: the call goes to the hook's
\* TimerManager; the listener runs if it is still subscribed
HookCall(h, r, t) ==
    LET h1 == [h EXCEPT !.timer = r.state]
    IN  IF r.event # NoEvent /\ h.subscribed THEN HookListener(h1, r.event, t) ELSE h1

\* the effect's cleanup: timerConfig is a new object on every render, so a
\* re-render runs the cleanup (unsubscribe) and, the TimerManager existing
\* already, subscribes nothing
HookRerender(h) == [h EXCEPT !.subscribed = FALSE]

\* one requestAnimationFrame callback, scheduled only while isRunning
HookFrame(h, t) == [h EXCEPT !.timeRemaining = getCurrentTime(h.timer, t)]

\* one run of the autoSync interval callback
HookSync(h, t) == [h EXCEPT !.timeRemaining = getCurrentTime(h.timer, t)]

\* loadGame of a page: the display data of the game fetched
HookLoadGame(h, result) ==
    IF result = NoRecord THEN h
    ELSE [h EXCEPT !.gameData = [ id     |-> result.game.id,
                                  scoreA |-> result.game.scoreA,
                                  scoreB |-> result.game.scoreB ]]

\* a button of the admin page is disabled by what the last render showed;
\* without the subscription nothing re-renders the page after a call
ShowsFinished(h) == h.subscribed /\ isGameFinished(h.timer)
ShowsExpired(h, t) == h.subscribed /\ isExpired(h.timer, t)

PageStep(page, op) ==
    hookLast' = [page |-> page, op |-> op]

ClientTick ==
    /\ now < ClientMaxTime
    /\ now' = now + 1
    /\ UNCHANGED <<clockVars, regVars, otherVars>>

AdminCommand(op, r) ==
    /\ adminCommands < MaxAdminCommands
    /\ adminHook' = HookCall(adminHook, r, now)
    /\ adminCommands' = adminCommands + 1
    /\ PageStep("admin", op)
    /\ UNCHANGED <<now, clockVars, regVars, spectatorHook, listenerVars, peerVars>>

AdminStart ==
    /\ ~adminHook.isRunning /\ ~ShowsFinished(adminHook) /\ ~ShowsExpired(adminHook, now)
    /\ AdminCommand("start", start(adminHook.timer, now))

AdminPause ==
    /\ adminHook.isRunning /\ ~ShowsFinished(adminHook)
    /\ AdminCommand("pause", pause(adminHook.timer, now))

AdminNextQuarter ==
    /\ ~ShowsFinished(adminHook)
    /\ ~(adminHook.isRunning /\ adminHook.timeRemaining > 0)
    /\ AdminCommand("nextQuarter", nextQuarter(adminHook.timer, now, TotalQuarters))

AdminReset ==
    /\ ~ShowsFinished(adminHook)
    /\ AdminCommand("reset", reset(adminHook.timer, now))

AdminRerender ==
    /\ adminHook.subscribed
    /\ adminHook' = HookRerender(adminHook)
    /\ PageStep("admin", "render")
    /\ UNCHANGED <<now, clockVars, regVars, spectatorHook, adminCommands, listenerVars, peerVars>>

AdminFrame ==
    /\ adminHook.isRunning
    /\ adminHook' = HookFrame(adminHook, now)
    /\ PageStep("admin", "frame")
    /\ UNCHANGED <<now, clockVars, regVars, spectatorHook, adminCommands, listenerVars, peerVars>>

\* GET /api/test-timer?gameId= answered by TimerService.getGameWithTimer
FetchGame(r) ==
    /\ SetWorld(r.world)
    /\ regLast' = [ op |-> "getGameWithTimer", gameId |-> "g1", found |-> r.result # NoRecord,
                    restoredFrom |-> r.restoredFrom, created |-> r.created ]
    /\ UNCHANGED <<now, clockVars, idPool, diskMayFail, adminCommands, listenerVars, peerVars>>

AdminLoadGame ==
    /\ adminHook.gameData = NoRecord
    /\ \E r \in {getGameWithTimer(World, "g1", now, TRUE)} :
        /\ FetchGame(r)
        /\ adminHook' = HookLoadGame(adminHook, r.result)
    /\ PageStep("admin", "loadGame")
    /\ UNCHANGED spectatorHook

SpectatorLoadGame ==
    /\ spectatorHook.gameData = NoRecord
    /\ \E r \in {getGameWithTimer(World, "g1", now, TRUE)} :
        /\ FetchGame(r)
        /\ spectatorHook' = HookLoadGame(spectatorHook, r.result)
    /\ PageStep("spectator", "loadGame")
    /\ UNCHANGED adminHook

SpectatorSync ==
    /\ spectatorHook' = HookSync(spectatorHook, now)
    /\ PageStep("spectator", "sync")
    /\ UNCHANGED <<now, clockVars, regVars, adminHook, adminCommands, listenerVars, peerVars>>

SpectatorRerender ==
    /\ spectatorHook.subscribed
    /\ spectatorHook' = HookRerender(spectatorHook)
    /\ PageStep("spectator", "render")
    /\ UNCHANGED <<now, clockVars, regVars, adminHook, adminCommands, listenerVars, peerVars>>

\* the two pages of one game and the API the server offers, while time passes
ClientNext ==
    \/ ClientTick
    \/ CreateGame
    \/ StartTimer
    \/ AdminLoadGame
    \/ AdminStart
    \/ AdminPause
    \/ AdminNextQuarter
    \/ AdminReset
    \/ AdminRerender
    \/ AdminFrame
    \/ SpectatorLoadGame
    \/ SpectatorSync
    \/ SpectatorRerender

----------------------------------------------------------------------------
(* Two server processes on one data directory: the process of the variables
   above and a second one (peer), each with its own TimerService maps and
   storage caches, sharing the two JSON files *)

\* a process that has just loaded the modules
FreshProcess ==
    [ timers           |-> EmptyMap,
      lastAccessed     |-> EmptyMap,
      cleanupInterval  |-> FALSE,
      autoSaveInterval |-> FALSE,
      timerStore       |-> EmptyStore,
      gameStore        |-> EmptyStore ]

PeerIdle == peer = FreshProcess

\* the files of store `from` under the cache of store `st`
WithFileOf(st, from) == [st EXCEPT !.fileExists = from.fileExists, !.file = from.file]

\* the peer as it finds the files now
PeerWorld ==
    [peer EXCEPT !.timerStore = WithFileOf(peer.timerStore, timerStore),
                 !.gameStore  = WithFileOf(peer.gameStore, gameStore)]

\* a handler of the peer has run: its maps and caches, and the files it left
PeerHandled(w) ==
    /\ peer' = w
    /\ timerStore' = WithFileOf(timerStore, w.timerStore)
    /\ gameStore' = WithFileOf(gameStore, w.gameStore)
    /\ UNCHANGED <<now, clockVars, timers, lastAccessed, cleanupInterval, autoSaveInterval,
                   idPool, diskMayFail, regLast, hookVars, listenerVars>>

\* a getState request served by the peer
PeerGetGameWithTimer ==
    \E id \in GameIds :
        \E r \in {getGameWithTimer(PeerWorld, id, now, TRUE)} : PeerHandled(r.world)

\* the auto-save job of the peer fires
PeerAutoSave ==
    /\ peer.autoSaveInterval
    /\ \E w \in {performAutoSave(PeerWorld, now, TRUE)} : PeerHandled(w)

\* commands served by one process, reads and the auto-save of the other
TwoProcessTick ==
    /\ now < TwoProcessMaxTime
    /\ now' = now + 1
    /\ UNCHANGED <<clockVars, otherVars, regVars>>

TwoProcessNext ==
    \/ TwoProcessTick
    \/ CreateGame
    \/ StartTimer
    \/ PauseTimer
    \/ AutoSave
    \/ PeerGetGameWithTimer
    \/ PeerAutoSave

----------------------------------------------------------------------------
(* Specifications *)

\* the state after construction: no call made, nothing stored
Init == now = 0 /\ ClockIdle /\ RegInit /\ HooksIdle /\ ListenersIdle /\ PeerIdle

\* one TimerManager on its own
ClockSpec == Init /\ [][ClockNext]_vars

\* TimerService with its storage
RegistrySpec == Init /\ [][RegNext]_vars

\* TimerService holding several games, with a file system that works
EvictionInit == now = 0 /\ ClockIdle /\ RegInitWith(EvictionIds, FALSE) /\ HooksIdle /\ ListenersIdle /\ PeerIdle

EvictionSpec == EvictionInit /\ [][EvictionNext]_vars

\* TimerService over a timer store whose saveTimerState sometimes raises
SavingInit == now = 0 /\ ClockIdle /\ RegInitWith(GameIds, FALSE) /\ HooksIdle /\ ListenersIdle /\ PeerIdle

SavingSpec == SavingInit /\ [][SavingNext]_vars

\* TimerService taking commands and shutdowns over time
ServiceSpec == Init /\ [][ServiceNext]_vars

\* TimerService taking requests for known and unknown game ids
RequestSpec == Init /\ [][RequestNext]_vars

\* score updates between timer commands and shutdowns while time passes
ScoreSpec == Init /\ [][ScoreNext]_vars

\* the admin page, the spectator page and the server of one game
ClientInit == SavingInit

ClientSpec == ClientInit /\ [][ClientNext]_vars

\* the same, the spectator page's sync interval and fetch being served
ClientLiveSpec ==
    /\ ClientInit /\ [][ClientNext]_vars
    /\ WF_vars(SpectatorSync) /\ WF_vars(SpectatorLoadGame)

\* two processes sharing the data files
TwoProcessSpec == SavingInit /\ [][TwoProcessNext]_vars

\* the same, the auto-save interval of each process firing
TwoProcessLiveSpec ==
    /\ SavingInit /\ [][TwoProcessNext]_vars
    /\ WF_vars(AutoSave) /\ WF_vars(PeerAutoSave)

\* one TimerManager and its listeners
ListenerSpec == Init /\ [][ListenerNext]_vars

----------------------------------------------------------------------------
(* Properties of the clock state machine, checked under ClockSpec *)

\* C1: within a quarter and without sync, the remaining time after each
\* pause() is max(0, quarterLength - total length of the running intervals).
C1_ClockCorrectness ==
    (~synced /\ lastOp = "pause") =>
        getCurrentTime(timer, now) = Max(0, timer.quarterLength - ranTotal)

\* two run segments of 2 and 1 ticks separated by a pause leave 6 - 3 = 3
C1_Witness ==
    /\ ~synced
    /\ lastOp = "pause"
    /\ lastEvent.type = "pause"
    /\ ranTotal = 3
    /\ timer.pausedAt > ranTotal
    /\ getCurrentTime(timer, now) = QuarterLength - 3

\* C2 (as claimed): once the status is finished, start(), pause(),
\* nextQuarter() and reset() change no field of the state.
C2_FinishedIsTerminal ==
    [][ (~synced /\ timer.status = "finished"
           /\ (CallStart \/ CallPause \/ CallNextQuarter \/ CallReset))
        => timer' = timer ]_vars

LiveIffRunning(s) == (s.status = "live") <=> s.isRunning

\* a snapshot that itself satisfies status = live <=> isRunning
SnapshotLiveIffRunning(p) ==
    /\ "status" \in DOMAIN p
    /\ "isRunning" \in DOMAIN p
    /\ (p.status = "live") <=> p.isRunning

\* C3: status = live <=> isRunning holds initially and is preserved by
\* start, pause, nextQuarter, reset, the passage of time, and a sync from
\* a snapshot that itself satisfies it.
C3_LiveIffRunning ==
    /\ LiveIffRunning(timer)
    /\ [][ (LiveIffRunning(timer)
              /\ (\/ Tick \/ CallStart \/ CallPause \/ CallNextQuarter \/ CallReset
                  \/ \E p \in SyncInputs(timer, now) :
                        SnapshotLiveIffRunning(p) /\ SyncWith(p)))
           => LiveIffRunning(timer') ]_vars

\* a clock just synced to a live, running snapshot of quarter 2
C3_Witness ==
    /\ lastOp = "sync"
    /\ lastEvent.type = "sync"
    /\ timer.status = "live"
    /\ timer.isRunning
    /\ timer.startedAt # Null
    /\ timer.currentQuarter = 2

\* C4 (as claimed): at rest the accumulated run time lies within
\* 0 .. quarterLength.
C4_AccumulatedWithinQuarter ==
    (~synced /\ ~timer.isRunning) =>
        (0 <= timer.totalPausedTime /\ timer.totalPausedTime <= timer.quarterLength)

\* C5 (as claimed): a clock whose remaining time has reached zero is
\* observed stopped: remaining 0, isRunning false, status scheduled.
C5_StopsAtExpiry ==
    (~synced /\ isExpired(timer, now)) =>
        /\ getCurrentTime(timer, now) = 0
        /\ ~timer.isRunning
        /\ timer.status = "scheduled"

\* C6: while isRunning is false, getCurrentTime() is the same at every
\* later wall-clock time.
C6_PauseMonotonicity ==
    ~timer.isRunning =>
        \A t \in now .. MaxTime + 1 :
            getCurrentTime(timer, t) = getCurrentTime(timer, now)

\* a clock paused mid-quarter, some time after the pause
C6_Witness ==
    /\ ~timer.isRunning
    /\ lastOp = "pause"
    /\ timer.pausedAt # Null
    /\ now > timer.pausedAt
    /\ getCurrentTime(timer, now) \in 1 .. (QuarterLength - 1)

\* C7: a second consecutive start(), pause() or reset(), whatever time
\* passed since the first, leaves the state as the first left it.
C7_Idempotence ==
    [][ /\ (lastOp = "start" /\ CallStart) => timer' = timer
        /\ (lastOp = "pause" /\ CallPause) => timer' = timer
        /\ (lastOp = "reset" /\ CallReset) => timer' = timer ]_vars

\* a second start() issued after the clock started by the first has run
C7_Witness ==
    /\ ~synced
    /\ lastOp = "start"
    /\ lastEvent = NoEvent
    /\ timer.isRunning
    /\ now > timer.startedAt

\* C8: the quarter never exceeds totalQuarters, and from the 4th
\* nextQuarter() call on the clock is finished in quarter 4.
C8_QuarterBound ==
    ~synced =>
        /\ timer.currentQuarter <= TotalQuarters
        /\ (lastOp = "nextQuarter" /\ nqCount >= TotalQuarters) =>
              (timer.status = "finished" /\ timer.currentQuarter = TotalQuarters)

\* a fifth nextQuarter() call
C8_Witness ==
    /\ ~synced
    /\ lastOp = "nextQuarter"
    /\ nqCount = 5
    /\ timer.status = "finished"

\* C9: start() on a running clock, start() with no time remaining and
\* pause() on a clock that is not running change nothing and emit nothing.
C9_InvalidTransitionNoOp ==
    [][ /\ (CallStart /\ (timer.isRunning \/ getCurrentTime(timer, now) <= 0))
              => (timer' = timer /\ lastEvent' = NoEvent)
        /\ (CallPause /\ ~timer.isRunning)
              => (timer' = timer /\ lastEvent' = NoEvent) ]_vars

\* a start() refused because the paused clock has no time remaining
C9_Witness ==
    /\ ~synced
    /\ lastOp = "start"
    /\ lastEvent = NoEvent
    /\ ~timer.isRunning
    /\ timer.totalPausedTime >= timer.quarterLength

----------------------------------------------------------------------------
(* Properties of the registry, checked under RegistrySpec *)

\* C10 (restore fidelity): when a read through the registry restores a timer
\* from a persisted record, every field of the timer's state equals the
\* record's field, and for a record that is running with startedAt set the
\* time remaining at the restore and at every later instant is the quarter
\* length less the accumulated time less the time since startedAt, rounded to
\* a tenth and never below zero: the restored clock keeps counting down.
C10_RestoreFidelity ==
    (regLast.op = "getGameWithTimer" /\ regLast.restoredFrom # NoRecord) =>
        LET rec == regLast.restoredFrom
            st  == timers[regLast.gameId]
        IN  /\ \A f \in DOMAIN st : st[f] = rec[f]
            /\ (rec.isRunning /\ rec.startedAt # Null) =>
                   \A t \in now .. MaxTime + 1 :
                       getCurrentTime(st, t) =
                           Max(0, Round10(rec.quarterLength - rec.totalPausedTime
                                          - (t - rec.startedAt)))

\* a read has just restored a running timer from a record started three ticks
\* ago with nothing accumulated: half the quarter is left and the time
\* remaining is lower two ticks later
C10_Witness ==
    /\ regLast.op = "getGameWithTimer"
    /\ regLast.restoredFrom # NoRecord
    /\ regLast.restoredFrom.isRunning
    /\ regLast.restoredFrom.startedAt = now - 3
    /\ regLast.restoredFrom.totalPausedTime = 0
    /\ regLast.restoredFrom.quarterLength = QuarterMinutes * TicksPerMinute
    /\ timers[regLast.gameId].isRunning
    /\ getCurrentTime(timers[regLast.gameId], now) = Round10(3)
    /\ getCurrentTime(timers[regLast.gameId], now + 2) < getCurrentTime(timers[regLast.gameId], now)

\* the step is a call of the method op for the event id, as recorded
Called(op, id) == now' = now /\ regLast'.op = op /\ regLast'.gameId = id

\* a request for one event handled by the registry
RequestOn(id) ==
    \/ Called("getGameWithTimer", id) /\ GetGameWithTimer
    \/ Called("startTimer", id) /\ StartTimer
    \/ Called("pauseTimer", id) /\ PauseTimer
    \/ Called("nextQuarter", id) /\ NextQuarter
    \/ Called("resetTimer", id) /\ ResetTimer

\* C11 (one live instance per event): a read or a command for an event whose
\* timer the registry holds, and whose game record is found, constructs no
\* TimerManager and leaves the event's entry in the registry: it operates on
\* the instance already held.
C11_OneInstancePerEvent ==
    [][ \A id \in GameIds :
          (id \in DOMAIN timers /\ RequestOn(id) /\ regLast'.found)
              => (id \in DOMAIN timers' /\ regLast'.created = 0) ]_vars

\* a start command has just run on the instance created with the game: no
\* instance was constructed and the held one is running since this instant
C11_Witness ==
    /\ regLast.op = "startTimer"
    /\ regLast.found
    /\ regLast.created = 0
    /\ regLast.gameId \in DOMAIN timers
    /\ timers[regLast.gameId].isRunning
    /\ timers[regLast.gameId].startedAt = now
    /\ now > 0

\* the game cache is older than the timeout and still holds the game
StaleCacheHolds(id) ==
    /\ gameStore.cacheSet
    /\ now - gameStore.cacheTs >= CacheTimeout
    /\ id \in DOMAIN gameStore.cache

\* the file system calls of the step fail
DiskFailsInStep == diskMayFail /\ ~diskMayFail'

\* C18: when the cache is older than the timeout and the durable store
\* yields nothing (file missing or unreadable), a read returns the stale
\* cache contents as a last resort: a game the stale cache holds is found.
C18_StaleCacheLastResort ==
    [][ \A id \in GameIds :
          ( /\ GetGameWithTimer /\ regLast'.gameId = id
            /\ StaleCacheHolds(id)
            /\ (~gameStore.fileExists \/ DiskFailsInStep) )
              => regLast'.found ]_vars

----------------------------------------------------------------------------
(* Properties of the service, checked under ServiceSpec *)

\* a command for one event handled by the registry
CommandOn(id) ==
    \/ Called("createGame", id) /\ CreateGame
    \/ Called("startTimer", id) /\ StartTimer
    \/ Called("pauseTimer", id) /\ PauseTimer
    \/ Called("nextQuarter", id) /\ NextQuarter
    \/ Called("resetTimer", id) /\ ResetTimer
    \/ Called("syncTimer", id) /\ SyncTimer

\* the record a read of the timer store returns now for the event agrees
\* with the live timer on the fields that define the clock
PersistedMatchesLive(id) ==
    LET rec == TimerData_getTimerState(timerStore, id, now, TRUE).record
    IN  /\ rec # NoRecord
        /\ id \in DOMAIN timers
        /\ \A f \in {"isRunning", "startedAt", "totalPausedTime",
                     "currentQuarter", "quarterLength", "status"} :
               rec[f] = timers[id][f]

C19_FailedWriteStillReadable ==
    [][ \A id \in GameIds :
          (CommandOn(id) /\ DiskFailsInStep /\ timerStore' # timerStore) =>
              /\ regLast'.found
              /\ PersistedMatchesLive(id)'
              /\ \A diskOk \in BOOLEAN :
                    /\ TimerData_getTimerState(timerStore', id, now', diskOk).record
                         = TimerData_getTimerState(timerStore', id, now', TRUE).record
                    /\ CreateGame =>
                         LET g == GameData_getGame(gameStore', id, now', diskOk).game
                         IN  g # NoRecord /\ g.createdAt = now /\ g.status = "scheduled"
      ]_vars

\* startTimer has returned after a write that reached the cache only: the
\* record read back is running, the record in the file is not
C19_Witness ==
    /\ regLast.op = "startTimer" /\ regLast.found
    /\ ~diskMayFail /\ now > 0
    /\ "g1" \in DOMAIN timers /\ timers["g1"].startedAt = now
    /\ TimerData_getTimerState(timerStore, "g1", now, TRUE).record.startedAt = now
    /\ timerStore.fileExists /\ "g1" \in DOMAIN timerStore.file
    /\ ~timerStore.file["g1"].isRunning

\* the record persisted for id after the step holds the state the live
\* instance had before it
FlushedByStep(id) ==
    LET rec == TimerData_getTimerState(timerStore', id, now', TRUE).record
    IN  /\ rec # NoRecord
        /\ \A f \in {"isRunning", "startedAt", "totalPausedTime",
                      "currentQuarter", "quarterLength", "status"} :
              rec[f] = timers[id][f]

\* C16: shutdown() is idempotent. One call flushes every live instance to
\* persistence, cancels the background jobs that are scheduled and empties
\* the registry; a second consecutive call changes nothing further and
\* cancels no job again.
C16_ShutdownIdempotent ==
    [][ Shutdown =>
          /\ \A id \in DOMAIN timers : FlushedByStep(id)
          /\ timers' = EmptyMap /\ lastAccessed' = EmptyMap
          /\ ~cleanupInterval' /\ ~autoSaveInterval'
          /\ (cleanupInterval /\ autoSaveInterval) => regLast'.cancelled = 2
          /\ regLast.op = "shutdown" =>
                /\ UNCHANGED <<timers, lastAccessed, cleanupInterval,
                               autoSaveInterval, timerStore, gameStore>>
                /\ regLast'.cancelled = 0 ]_vars

\* a second shutdown has returned after a first one flushed a running clock
C16_Witness ==
    /\ regLast.op = "shutdown" /\ regLast.cancelled = 0
    /\ timers = EmptyMap /\ ~cleanupInterval /\ ~autoSaveInterval
    /\ now > 0
    /\ LET rec == TimerData_getTimerState(timerStore, "g1", now, TRUE).record
       IN  rec # NoRecord /\ rec.isRunning /\ rec.startedAt > 0

----------------------------------------------------------------------------
(* Properties of requests for unknown games, checked under RequestSpec *)

\* one of the seven operations that take the id of an existing game
OperationOn(id) ==
    \/ RequestOn(id)
    \/ Called("syncTimer", id) /\ SyncTimer
    \/ Called("updateScore", id) /\ UpdateScore

\* no game record is stored under the id
UnknownGame(id) == id \notin DOMAIN loadGamesFromStorage(gameStore, now, TRUE).data

\* C17: every operation on an unknown game id (getState, start, pause,
\* nextQuarter, reset, sync, updateScore) returns null, creates no registry
\* entry, schedules nothing and writes no persistence record.
C17_UnknownIdIsNotFound ==
    [][ \A id \in GameIds :
          (UnknownGame(id) /\ OperationOn(id)) =>
              /\ ~regLast'.found
              /\ UNCHANGED <<timers, lastAccessed, cleanupInterval,
                             autoSaveInterval, timerStore>>
              /\ gameStore'.file = gameStore.file
              /\ gameStore'.fileExists = gameStore.fileExists
              /\ UnknownGame(id)' ]_vars

\* updateScore has returned null for a game that was deleted, its old
\* lastAccessed entry untouched and no instance created
C17_Witness ==
    /\ regLast.op = "updateScore" /\ ~regLast.found
    /\ UnknownGame(regLast.gameId)
    /\ regLast.gameId \in DOMAIN lastAccessed
    /\ regLast.gameId \notin DOMAIN timers
    /\ TimerData_getTimerState(timerStore, regLast.gameId, now, TRUE).record = NoRecord

----------------------------------------------------------------------------
(* Properties of the eviction sweep, checked under EvictionSpec *)

\* the instances a sweep removes although they were accessed within the TTL
RemovedFresh ==
    {id \in DOMAIN timers \ DOMAIN timers' : id \notin StaleTimers(World, now)}

\* C13: an instance whose last access is older than the TTL when a sweep runs
\* is absent from the registry after the sweep, and an instance accessed
\* within the TTL is not removed by the TTL rule: the sweep removes no more
\* fresh instances than the cap rule asks for.
C13_TTLEviction ==
    [][ AutomaticCleanup =>
          /\ \A id \in DOMAIN timers :
                now - lastAccessed[id] > TIMER_TTL
                    => (id \notin DOMAIN timers' /\ id \notin DOMAIN lastAccessed')
          /\ Cardinality(RemovedFresh) <= ExcessCount(World, now) ]_vars

\* a sweep has just removed a stale instance and kept one accessed within the
\* TTL, at the cap
C13_Witness ==
    /\ regLast.op = "performAutomaticCleanup"
    /\ "g1" \notin DOMAIN timers
    /\ lastAccessed = [g \in {"g2"} |-> now - TIMER_TTL]
    /\ DOMAIN timers = {"g2"}
    /\ TimerData_getTimerState(timerStore, "g1", now, TRUE).record # NoRecord

\* C14: after every eviction sweep the registry holds at most
\* MAX_TIMER_INSTANCES instances, whatever creations, accesses and deletions
\* came before it.
C14_SweepEnforcesCap ==
    [][ AutomaticCleanup => Cardinality(DOMAIN timers') <= MAX_TIMER_INSTANCES ]_vars

\* C15: the activeTimers that getMemoryStats() reports never exceeds
\* MAX_TIMER_INSTANCES, also right after games were created one after another.
C15_ActiveTimersWithinCap ==
    getMemoryStats(World).activeTimers <= MAX_TIMER_INSTANCES

----------------------------------------------------------------------------
(* Properties of the service over a raising timer store, checked under
   SavingSpec *)

\* C20: when saving a clock record raises, createGame, startTimer and the
\* other commands still complete without raising, and createGame returns the
\* game state.
C20_SaveErrorIsSwallowed ==
    (regLast.op # "none" /\ ~regLast.saveOk) =>
        /\ ~regLast.raised
        /\ regLast.op = "createGame" => regLast.found

----------------------------------------------------------------------------
(* Properties of the pages, checked under ClientSpec *)

\* what GET /api/test-timer answers for the game now: the authoritative
\* snapshot, NoRecord while the game does not exist
Authoritative(id) == getGameWithTimer(World, id, now, TRUE).result

\* the hook shows the clock of the snapshot
ShowsSnapshot(h, a) ==
    /\ h.isRunning = a.isRunning
    /\ h.currentQuarter = a.game.currentQuarter
    /\ h.status = a.game.status
    /\ h.timeRemaining = a.timeRemaining

\* a step of the spectator page that talks to the server or runs its
\* periodic sync
ObserverPoll ==
    /\ hookLast'.page = "spectator"
    /\ \/ hookLast'.op = "sync" /\ SpectatorSync
       \/ hookLast'.op = "loadGame" /\ SpectatorLoadGame

\* C21 (as claimed): after each poll of the spectator page (its periodic sync
\* or its fetch of the game), the isRunning, currentQuarter, status and
\* timeRemaining it shows are those of the authoritative snapshot of the game.
C21_ServerWinsForObservers ==
    [][ObserverPoll /\ Authoritative("g1")' # NoRecord
         => ShowsSnapshot(spectatorHook', Authoritative("g1")')]_vars

\* the clock the server holds for the game and the clock the spectator page
\* shows both have the isRunning, currentQuarter and status of the admin
\* page's own clock
ObserversFollowController ==
    LET a == Authoritative("g1")
        c == adminHook.timer
    IN  /\ a.isRunning = c.isRunning
        /\ a.game.currentQuarter = c.currentQuarter
        /\ a.game.status = c.status
        /\ spectatorHook.isRunning = c.isRunning
        /\ spectatorHook.currentQuarter = c.currentQuarter
        /\ spectatorHook.status = c.status

\* C22 (as claimed): a timer command of the admin page reaches the server's
\* clock of the game, so once the admin has pressed its last button the
\* server and the polling spectator page eventually show, and keep showing,
\* the isRunning, currentQuarter and status of the admin's clock.
C22_CommandsReachObservers ==
    <>[]((adminCommands > 0 /\ Authoritative("g1") # NoRecord) => ObserversFollowController)

\* the admin page fetches the game from the server
ControllerFetch ==
    /\ hookLast'.page = "admin"
    /\ hookLast'.op = "loadGame"
    /\ AdminLoadGame

\* the admin page's own clock has the status and isRunning of the snapshot
MirrorsSnapshot(h, a) ==
    /\ h.timer.isRunning = a.isRunning
    /\ h.timer.status = a.game.status

\* C23 (as claimed): when the admin page fetches the game from the server,
\* its own clock afterwards has the authoritative status and isRunning,
\* whatever it held before.
C23_ControllerAdoptsOnFetch ==
    [][ControllerFetch /\ Authoritative("g1")' # NoRecord
         => MirrorsSnapshot(adminHook', Authoritative("g1")')]_vars

----------------------------------------------------------------------------
(* Properties of the listeners, checked under ListenerSpec *)

\* a step that is one start(), pause(), nextQuarter() or reset()
MutatingCall ==
    /\ now' = now
    /\ listeners' = listeners
    /\ lastOp' \in {"start", "pause", "nextQuarter", "reset"}
    /\ (ListenerStart \/ ListenerPause \/ ListenerNextQuarter \/ ListenerReset)

\* C24: when a call emits an event while a listener that throws is
\* subscribed, every subscribed listener, those after the throwing one
\* included, is still invoked once with that event, the clock keeps the state
\* the call gave it, and the call does not raise.
C24_ThrowingListenerIsContained ==
    [][(MutatingCall /\ lastEvent' # NoEvent
            /\ SeqRange(listeners) \cap ThrowingListeners # {})
         => /\ \A l \in SeqRange(listeners) :
                   delivered'[l].count = 1 /\ delivered'[l].event = lastEvent'
            /\ timer' = lastEvent'.state
            /\ ~raised']_vars

\* a call has just notified a throwing listener and a listener subscribed
\* after it
C24_Witness ==
    /\ lastOp \in {"start", "pause", "nextQuarter", "reset"}
    /\ lastEvent # NoEvent
    /\ \E i, j \in DOMAIN listeners :
          /\ i < j
          /\ listeners[i] \in ThrowingListeners
          /\ delivered[listeners[j]].count = 1
          /\ delivered[listeners[j]].event = lastEvent
    /\ timer = lastEvent.state
    /\ ~raised

\* C25: a call that changes the state invokes each subscribed listener
\* exactly once, with a snapshot equal to the state after the change; no call
\* invokes a listener that is not subscribed (never was, or has unsubscribed).
C25_EachListenerOncePerChange ==
    [][MutatingCall
         => /\ timer' # timer
                => \A l \in SeqRange(listeners) :
                      delivered'[l].count = 1 /\ delivered'[l].event.state = timer'
            /\ \A l \in ListenerIds \ SeqRange(listeners) : delivered'[l].count = 0]_vars

\* a state-changing call has just notified two listeners and not the third,
\* which is not subscribed
C25_Witness ==
    /\ lastOp = "start"
    /\ lastEvent # NoEvent
    /\ timer.isRunning
    /\ Len(listeners) = 2
    /\ \A l \in SeqRange(listeners) : delivered[l].count = 1 /\ delivered[l].event.state = timer
    /\ \E l \in ListenerIds \ SeqRange(listeners) : delivered[l].count = 0

----------------------------------------------------------------------------
(* Further properties of the clock state machine, checked under ClockSpec *)

\* a step that is one syncWithState()
SyncCall ==
    /\ now' = now
    /\ lastOp' = "sync"
    /\ CallSync

\* C26: syncWithState() emits an event, of type sync and carrying the merged
\* state, exactly when the merged state differs from the state before; called
\* with the clock's own state it emits nothing and changes nothing.
C26_SyncEmitsIffChanged ==
    [][/\ SyncCall => /\ (lastEvent' # NoEvent) <=> (timer' # timer)
                      /\ lastEvent' # NoEvent
                            => lastEvent'.type = "sync" /\ lastEvent'.state = timer'
       /\ (lastOp' = "sync" /\ SyncWith(timer)) => lastEvent' = NoEvent /\ timer' = timer]_vars

\* a sync has just changed the state of a running clock and emitted the event
C26_Witness ==
    /\ lastOp = "sync"
    /\ lastEvent # NoEvent
    /\ lastEvent.type = "sync"
    /\ lastEvent.state = timer
    /\ timer.currentQuarter = 2

\* C27: every nextQuarter(), whatever the state before, leaves the clock
\* stopped with startedAt null and no accumulated run time, in quarter
\* min(previous + 1, totalQuarters), finished exactly when the previous
\* quarter was already totalQuarters and scheduled otherwise.
C27_NextQuarterPostcondition ==
    [][(now' = now /\ lastOp' = "nextQuarter" /\ CallNextQuarter)
         => /\ ~timer'.isRunning
            /\ timer'.startedAt = Null
            /\ timer'.totalPausedTime = 0
            /\ timer'.currentQuarter = Min(timer.currentQuarter + 1, TotalQuarters)
            /\ timer'.status = IF timer.currentQuarter = TotalQuarters
                               THEN "finished" ELSE "scheduled"]_vars

\* nextQuarter() has just been called in the last quarter
C27_Witness ==
    /\ lastOp = "nextQuarter"
    /\ timer.currentQuarter = TotalQuarters
    /\ timer.status = "finished"
    /\ ~timer.isRunning
    /\ nqCount >= TotalQuarters

\* C28: reset() leaves the clock stopped with startedAt null, no accumulated
\* run time and status scheduled, and does not change currentQuarter,
\* quarterLength or gameId.
C28_ResetFrame ==
    [][(now' = now /\ lastOp' = "reset" /\ CallReset)
         => /\ ~timer'.isRunning
            /\ timer'.startedAt = Null
            /\ timer'.totalPausedTime = 0
            /\ timer'.status = "scheduled"
            /\ timer'.currentQuarter = timer.currentQuarter
            /\ timer'.quarterLength = timer.quarterLength
            /\ timer'.gameId = timer.gameId]_vars

\* reset() has just been called in a later quarter
C28_Witness ==
    /\ lastOp = "reset"
    /\ timer.currentQuarter > 1
    /\ timer.status = "scheduled"
    /\ timer.totalPausedTime = 0

----------------------------------------------------------------------------
(* Properties of the subscriber and of score updates *)

\* the game record as GameDataStorage.getGame reads it back now
GameRecord(id) == GameData_getGame(gameStore, id, now, TRUE).game

\* C29: when nextQuarter() on a game's clock is made through the service, the
\* game record read back afterwards has the clock's new currentQuarter, and
\* when the clock is then finished the record's status is finished.
C29_RecordFollowsClock ==
    [][\A id \in GameIds :
         (Called("nextQuarter", id) /\ NextQuarter /\ regLast'.found)
           => /\ GameRecord(id)' # NoRecord
              /\ GameRecord(id)'.currentQuarter = timers'[id].currentQuarter
              /\ timers'[id].status = "finished" => GameRecord(id)'.status = "finished"]_vars

\* the service has just finished a game: clock and record are in the last
\* quarter and finished
C29_Witness ==
    /\ regLast.op = "nextQuarter"
    /\ regLast.found
    /\ "g1" \in DOMAIN timers
    /\ timers["g1"].status = "finished"
    /\ GameRecord("g1") # NoRecord
    /\ GameRecord("g1").status = "finished"
    /\ GameRecord("g1").currentQuarter = TotalQuarters

\* the clock of the game as a read through the service finds it now: the live
\* instance, or the one restored from the timer store
ClockAsRead(id) ==
    Step(getGameWithTimer(World, id, now, TRUE), LAMBDA r :
    IF r.result = NoRecord THEN NoRecord
    ELSE [ state         |-> r.world.timers[id],
           timeRemaining |-> r.result.timeRemaining ])

\* C30: updateScore on a game leaves the game's clock as it was: isRunning,
\* startedAt, accumulated run time, currentQuarter, status and every other
\* field of the clock state, and the remaining time, are unchanged: the clock
\* the registry holds after the call is the clock a read would have found
\* before it (the live instance, or the one restored from the store).
C30_ScoreLeavesClock ==
    [][\A id \in GameIds :
         (Called("updateScore", id) /\ UpdateScore /\ regLast'.found)
           => /\ ClockAsRead(id) # NoRecord
              /\ timers'[id] = ClockAsRead(id).state
              /\ getCurrentTime(timers'[id], now') = ClockAsRead(id).timeRemaining
              /\ id \in DOMAIN timers => timers'[id] = timers[id]]_vars

\* a score has just been added while the game's clock is running and has run
\* for some time
C30_Witness ==
    /\ regLast.op = "updateScore"
    /\ regLast.found
    /\ "g1" \in DOMAIN timers
    /\ timers["g1"].isRunning
    /\ timers["g1"].startedAt < now
    /\ GameRecord("g1").scoreA > 0

----------------------------------------------------------------------------
(* Properties of the clock's calls and reads, checked under ClockSpec *)

\* C31 (as claimed): in every reachable state in which start() is refused
\* because the clock is already running, states a sync produced included,
\* pause() stops the clock.
C31_PauseStopsRunningClock ==
    [][(now' = now /\ lastOp' = "pause" /\ CallPause /\ timer.isRunning)
         => ~timer'.isRunning]_vars

----------------------------------------------------------------------------
(* Further properties of the registry, checked under RegistrySpec *)

\* a step that is one run of a background job
BackgroundJob ==
    /\ now' = now
    /\ \/ regLast'.op = "performAutomaticCleanup" /\ AutomaticCleanup
       \/ regLast'.op = "performAutoSave" /\ AutoSave

\* C32: a run of the eviction sweep or of the auto-save leaves the state of
\* every clock the registry still holds as it was and emits no clock event
\* (the subscriber's writes to the game records do not happen); it changes
\* only the registry maps and the timer store.
C32_JobsLeaveClocksAlone ==
    [][BackgroundJob
         => /\ DOMAIN timers' \subseteq DOMAIN timers
            /\ \A id \in DOMAIN timers' : timers'[id] = timers[id]
            /\ gameStore' = gameStore
            /\ cleanupInterval' = cleanupInterval
            /\ autoSaveInterval' = autoSaveInterval]_vars

\* the auto-save has just saved a clock that is running
C32_Witness ==
    /\ regLast.op = "performAutoSave"
    /\ \E id \in DOMAIN timers :
          /\ timers[id].isRunning
          /\ timers[id].startedAt < now
          /\ TimerData_getTimerState(timerStore, id, now, TRUE).record # NoRecord

----------------------------------------------------------------------------
(* Further properties of the service, checked under ServiceSpec *)

\* a step that is one start, pause, nextQuarter or reset made through the
\* service on the game
TimerCommandOn(id) ==
    \/ Called("startTimer", id) /\ StartTimer
    \/ Called("pauseTimer", id) /\ PauseTimer
    \/ Called("nextQuarter", id) /\ NextQuarter
    \/ Called("resetTimer", id) /\ ResetTimer

\* C33 (as claimed): once the game record of an event says finished (what
\* isGameFinished reports), it still says finished after any start, pause,
\* nextQuarter or reset made through the service.
C33_FinishedStaysFinished ==
    [][\A id \in GameIds :
         (TimerCommandOn(id) /\ regLast'.found /\ GameRecord(id).status = "finished")
           => GameRecord(id)'.status = "finished"]_vars

\* C34 (as claimed): after every command made through the service on an
\* event (create, start, pause, nextQuarter, reset, sync), commands the clock
\* ignores included, the status and currentQuarter that getState returns (those
\* of the game record) are the status and currentQuarter of the live clock.
C34_StateReportsLiveClock ==
    [][\A id \in GameIds :
         (CommandOn(id) /\ regLast'.found)
           => /\ GameRecord(id)'.status = timers'[id].status
              /\ GameRecord(id)'.currentQuarter = timers'[id].currentQuarter]_vars

----------------------------------------------------------------------------
(* Eviction and restore, checked under RegistrySpec *)

\* the registry with the clock of the game evicted, as a sweep leaves it
Evicted(w, id) ==
    [w EXCEPT !.timers = [g \in DOMAIN w.timers \ {id} |-> w.timers[g]],
              !.lastAccessed = [g \in DOMAIN w.lastAccessed \ {id} |-> w.lastAccessed[g]]]

\* what getState returns, and the clock it leaves, in world w
ReadIn(w, id) ==
    Step(getGameWithTimer(w, id, now, TRUE), LAMBDA r :
    IF r.result = NoRecord THEN NoRecord
    ELSE [result |-> r.result, state |-> r.world.timers[id]])

\* getState gives the same with the clock of the game evicted first
EvictionUnseen(id) == ReadIn(Evicted(World, id), id) = ReadIn(World, id)

----------------------------------------------------------------------------
(* Properties of two processes, checked under TwoProcessLiveSpec *)

\* a store once its cache has timed out
CacheExpired(st) == [st EXCEPT !.cacheSet = FALSE]

\* what getState served by the peer returns once the peer's caches have
\* timed out
PeerServes(id) ==
    getGameWithTimer([PeerWorld EXCEPT !.timerStore = CacheExpired(@),
                                       !.gameStore  = CacheExpired(@)],
                     id, now, TRUE).result

\* the clock record of the game in the data file
DurableRecord(id) ==
    TimerData_getTimerState(CacheExpired(timerStore), id, now, TRUE).record

\* both processes hold a live clock of the game
BothHold(id) == id \in DOMAIN timers /\ id \in DOMAIN peer.timers

\* a request that changes the game or its clock is served
CommandStep == CreateGame \/ StartTimer \/ PauseTimer

\* the peer serves, and the data file holds, the state of the clock the
\* commands were applied to
Converged(id) ==
    /\ PeerServes(id).isRunning = timers[id].isRunning
    /\ PeerServes(id).game.currentQuarter = timers[id].currentQuarter
    /\ PeerServes(id).game.status = timers[id].status
    /\ DurableRecord(id) # NoRecord
    /\ DurableRecord(id).isRunning = timers[id].isRunning
    /\ DurableRecord(id).currentQuarter = timers[id].currentQuarter
    /\ DurableRecord(id).status = timers[id].status

\* C36 (as claimed): when two processes each hold a live clock of an event
\* and commands are applied in one of them, then once no further command is
\* issued getState served by the other eventually returns the isRunning,
\* currentQuarter and status of the clock commanded, and the durable clock
\* record eventually holds them.
C36_ProcessesConverge ==
    <>[][~CommandStep]_vars => <>[](BothHold("g1") => Converged("g1"))

----------------------------------------------------------------------------
(* The timer store written by two processes *)

StoreIds == {"g1", "g2"}

StoreCallers == {"self", "peer"}

\* records handed to saveTimerState at time t
StoreInputs(id, t) ==
    { [ gameId          |-> id,
        isRunning       |-> r,
        startedAt       |-> IF r THEN t ELSE Null,
        pausedAt        |-> Null,
        totalPausedTime |-> 0,
        currentQuarter  |-> 1,
        quarterLength   |-> QuarterLength,
        status          |-> IF r THEN "live" ELSE "scheduled",
        createdAt       |-> t,
        updatedAt       |-> t ] : r \in BOOLEAN }

\* the timer store as a process has it: its own cache over the shared file
StoreOf(by) ==
    IF by = "self" THEN timerStore ELSE WithFileOf(peer.timerStore, timerStore)

\* a call of the timer store made by a process: its cache and the file after
StoreCalled(op, id, by, st) ==
    /\ IF by = "self"
       THEN timerStore' = st /\ peer' = peer
       ELSE /\ peer' = [peer EXCEPT !.timerStore = st]
            /\ timerStore' = WithFileOf(timerStore, st)
    /\ regLast' = [op |-> op, gameId |-> id, by |-> by]
    /\ UNCHANGED <<now, clockVars, timers, lastAccessed, cleanupInterval, autoSaveInterval,
                   gameStore, idPool, diskMayFail, hookVars, listenerVars>>

SaveTimerState ==
    \E by \in StoreCallers : \E id \in StoreIds : \E timerData \in StoreInputs(id, now) :
        StoreCalled("saveTimerState", id, by,
                    TimerData_saveTimerState(StoreOf(by), timerData, now, TRUE))

DeleteTimerState ==
    \E by \in StoreCallers : \E id \in StoreIds :
        StoreCalled("deleteTimerState", id, by,
                    TimerData_deleteTimerState(StoreOf(by), id, now, TRUE))

StoreTick ==
    /\ now < StoreMaxTime
    /\ now' = now + 1
    /\ UNCHANGED <<clockVars, otherVars, regVars>>

StoreNext ==
    \/ StoreTick
    \/ SaveTimerState
    \/ DeleteTimerState

\* two processes saving and deleting timer records in the shared file
StoreSpec == SavingInit /\ [][StoreNext]_vars

----------------------------------------------------------------------------
(* Properties of the shared timer store, checked under StoreSpec *)

\* the record of a game in the data file
FileRecord(id) ==
    IF timerStore.fileExists THEN MapGet(timerStore.file, id) ELSE NoRecord

\* the record of a game as a process reads it
StoreRead(by, id) == TimerData_getTimerState(StoreOf(by), id, now, TRUE).record

\* C37 (as claimed): saving or deleting the stored record of one event leaves
\* the stored record of every other event as it was, in the data file and as
\* the calling process reads it, whatever the age of its cache and whoever
\* wrote the other record.
C37_OtherRecordsKept ==
    [][\A by \in StoreCallers : \A id \in StoreIds :
          ( /\ now' = now
            /\ regLast'.op \in {"saveTimerState", "deleteTimerState"}
            /\ regLast'.by = by
            /\ regLast'.gameId # id )
          => /\ FileRecord(id)' = FileRecord(id)
             /\ StoreRead(by, id)' = StoreRead(by, id)]_vars

----------------------------------------------------------------------------
(* Further properties of the sweep, checked under EvictionSpec *)

\* C38 (as claimed): after every operation of the registry the games that
\* have a live clock are exactly the games that have a lastAccessed entry.
C38_ClocksHaveAccessTimes == DOMAIN timers = DOMAIN lastAccessed

\* the sweep has to evict to enforce the cap
OverCap == ExcessCount(World, now) > 0

\* C39: when a sweep evicts to enforce the cap, every live clock it evicts
\* was last accessed no later than every clock that survives the sweep.
C39_CapEvictsLeastRecent ==
    [][(AutomaticCleanup /\ OverCap) =>
          \A v \in DOMAIN timers \ DOMAIN timers' : \A k \in DOMAIN timers' :
              lastAccessed[v] <= lastAccessed[k]]_vars

\* a sweep made before anything could be stale has evicted the clock of a
\* stored game and left another
C39_Witness ==
    /\ regLast.op = "performAutomaticCleanup"
    /\ now <= TIMER_TTL
    /\ DOMAIN timers # {}
    /\ \E id \in EvictionIds :
          /\ GameData_getGame(gameStore, id, now, TRUE).game # NoRecord
          /\ id \notin DOMAIN timers

----------------------------------------------------------------------------
(* Further properties of the clock, checked under ClockSpec *)

\* C40 (as claimed): within a quarter getCurrentTime() never increases: not
\* while time advances, and not across start() and pause().
C40_RemainingNeverIncreases ==
    [][(~synced /\ (Tick \/ CallStart \/ CallPause)) =>
          getCurrentTime(timer', now') <= getCurrentTime(timer, now)]_vars

====
